---- MODULE Spec2Model ----
(***************************************************************************)
(* Conflict detection and replacement matching of the drone operations     *)
(* coordinator: the seven sweep rules of ConflictDetectionService, its     *)
(* pre-assignment check, and the candidate scoring of the agent service.   *)
(*                                                                         *)
(* The Record Provider's answer (pilots, drones, projects) is the state;   *)
(* a request is the call being served and response is what it returned.    *)
(* Python's None is the empty sequence and a present value x is <<x>>.     *)
(* An f-string description is the record of the values it interpolates.    *)
(* Each conflict carries a freshly generated id and the time of the run;    *)
(* uuid4 is the random generator the ids are drawn from. earlier holds     *)
(* what was returned before. provider is the Record Provider's connection: *)
(* which source it reads and which reads raise. cells are the rows of the   *)
(* provider's own worksheets, and agent is the chat agent's instance.      *)
(***************************************************************************)
EXTENDS Integers, Sequences, FiniteSets, TLC

VARIABLES pilots, drones, projects, request, response, overlapCalls,
          earlier, provider, uuid4, cells, agent

vars == <<pilots, drones, projects, request, response, overlapCalls,
          earlier, provider, uuid4, cells, agent>>

(***************************************************************************)
(* Bounds and value universes                                              *)
(***************************************************************************)
MaxDate == 3

\* how many times a caller repeats the sweep over an unchanged snapshot
MaxRuns == 2
MaxTape == 3

Dates == 1..MaxDate

None == <<>>
Some(x) == <<x>>
OptDates == {None} \cup {Some(d) : d \in Dates}

\* date.isoformat() of day d of March 2024, and the strings the table knows
IsoTable ==
  <<"2024-03-01", "2024-03-02", "2024-03-03", "2024-03-04",
    "2024-03-05", "2024-03-06", "2024-03-07", "2024-03-08">>

isoformat(d) == IsoTable[d]

\* datetime.strptime(s, '%Y-%m-%d').date(): TypeError on None, ValueError on a
\* string that is not in the format; otherwise the date the string denotes.
StrptimeRaises(s) == s = None \/ ~(\E i \in DOMAIN IsoTable : IsoTable[i] = s[1])
strptime(s) == CHOOSE i \in DOMAIN IsoTable : IsoTable[i] = s[1]

LowerUnchanged(s) == s

\* str.lower() on the location strings of the model
lower(s) ==
  CASE s = "Pune" -> "pune"
    [] s = "PUNE" -> "pune"
    [] s = "Mumbai" -> "mumbai"
    [] OTHER -> s

\* truth value of an Optional[str]: None and "" are falsy
Truthy(o) == o /= None /\ o /= Some("")

SkillOrderMisplaced == <<"Beginner", "Advanced", "Intermediate", "Expert">>

skill_order == <<"Beginner", "Intermediate", "Advanced", "Expert">>

SkillIndexUnknownAboveAll(s) ==
  IF \E i \in DOMAIN skill_order : skill_order[i] = s
  THEN (CHOOSE i \in DOMAIN skill_order : skill_order[i] = s) - 1
  ELSE Len(skill_order)

SkillIndexOneBased(s) ==
  IF \E i \in DOMAIN skill_order : skill_order[i] = s
  THEN CHOOSE i \in DOMAIN skill_order : skill_order[i] = s
  ELSE 0

\* skill_order.index(s) if s in skill_order else 0
SkillIndex(s) ==
  IF \E i \in DOMAIN skill_order : skill_order[i] = s
  THEN (CHOOSE i \in DOMAIN skill_order : skill_order[i] = s) - 1
  ELSE 0

\* x in list
In(x, list) == \E i \in DOMAIN list : list[i] = x

MissingSwapped(required, have) == SelectSeq(have, LAMBDA x : ~In(x, required))

MissingReportsAll(required, have) ==
  IF \E i \in DOMAIN required : ~In(required[i], have) THEN required ELSE <<>>

\* [x for x in required if x not in have]
Missing(required, have) == SelectSeq(required, LAMBDA x : ~In(x, have))

FindByIdOrFirst(records, id) ==
  IF \E i \in DOMAIN records : records[i].id = id
  THEN Some(records[CHOOSE i \in DOMAIN records : records[i].id = id])
  ELSE IF records = <<>> THEN None ELSE Some(records[1])

\* next((p for p in records if p.id == id), None)
FindById(records, id) ==
  IF \E i \in DOMAIN records : records[i].id = id
  THEN Some(records[CHOOSE i \in DOMAIN records :
              /\ records[i].id = id
              /\ \A j \in 1..(i - 1) : records[j].id /= id])
  ELSE None

(***************************************************************************)
(* Outcome of a computation: a list, or an exception that ends it          *)
(***************************************************************************)
Ok(list) == [raised |-> FALSE, conflicts |-> list, calls |-> {}]
Raise == [raised |-> TRUE, conflicts |-> <<>>, calls |-> {}]

\* a; b  where each yields a list to extend the result with. calls collects
\* the evaluations of _dates_overlap made on the way.
Then(a, b) ==
  IF a.raised THEN a
  ELSE IF b.raised
       THEN [raised |-> TRUE, conflicts |-> <<>>, calls |-> a.calls \cup b.calls]
       ELSE [raised |-> FALSE, conflicts |-> a.conflicts \o b.conflicts,
             calls |-> a.calls \cup b.calls]

\* the lists a loop's iterations produce, in order; an exception ends the loop
RECURSIVE Concat(_)
Concat(outs) ==
  IF Len(outs) = 0 THEN Ok(<<>>)
  ELSE Then(Head(outs), Concat(Tail(outs)))

When(cond, list) == IF cond THEN Ok(list) ELSE Ok(<<>>)

(***************************************************************************)
(* Conflict records                                                        *)
(***************************************************************************)
Conflict(type, sev, desc, pilot, drone, project_id, project_name) ==
  [conflict_type |-> type,
   severity |-> sev,
   description |-> desc,
   affected_pilot_id |-> IF pilot = None THEN None ELSE Some(pilot[1].id),
   affected_pilot_name |-> IF pilot = None THEN None ELSE Some(pilot[1].name),
   affected_drone_id |-> IF drone = None THEN None ELSE Some(drone[1].id),
   affected_drone_serial |->
     IF drone = None THEN None ELSE Some(drone[1].serial_number),
   affected_project_id |-> project_id,
   affected_project_name |-> project_name]

\* uuid.uuid4().hex[:8].upper(): values the generator may yield
Uuids == {"3F2A91C0", "9C41D7E2", "0B77E4A1"}

\* the i-th value the generator gen yields from where it stands: gen.tape
\* is what it will yield, in order and over again, gen.next its position
Draw(gen, i) == gen.tape[((gen.next + i - 2) % Len(gen.tape)) + 1]

\* the generator after n draws
Drawn(gen, n) ==
  [tape |-> gen.tape, next |-> ((gen.next + n - 1) % Len(gen.tape)) + 1]

\* f"CONF-{uuid.uuid4().hex[:8].upper()}", one fresh draw per conflict
_generate_conflict_id(uuid) == <<"CONF", uuid>>

StampedIntoDescription(conflicts, gen, now) ==
  [i \in DOMAIN conflicts |->
    [id |-> _generate_conflict_id(Draw(gen, i)),
     detected_at |-> now,
     conflict_type |-> conflicts[i].conflict_type,
     severity |-> conflicts[i].severity,
     description |-> [template |-> "conflict",
                      id |-> _generate_conflict_id(Draw(gen, i))],
     affected_pilot_id |-> conflicts[i].affected_pilot_id,
     affected_pilot_name |-> conflicts[i].affected_pilot_name,
     affected_drone_id |-> conflicts[i].affected_drone_id,
     affected_drone_serial |-> conflicts[i].affected_drone_serial,
     affected_project_id |-> conflicts[i].affected_project_id,
     affected_project_name |-> conflicts[i].affected_project_name]]

\* the fields every Conflict(...) of a run is constructed with besides those
\* the rule passes: id=self._generate_conflict_id() and the default
\* detected_at=datetime.now()
Stamped(conflicts, gen, now) ==
  [i \in DOMAIN conflicts |->
    [id |-> _generate_conflict_id(Draw(gen, i)),
     detected_at |-> now,
     conflict_type |-> conflicts[i].conflict_type,
     severity |-> conflicts[i].severity,
     description |-> conflicts[i].description,
     affected_pilot_id |-> conflicts[i].affected_pilot_id,
     affected_pilot_name |-> conflicts[i].affected_pilot_name,
     affected_drone_id |-> conflicts[i].affected_drone_id,
     affected_drone_serial |-> conflicts[i].affected_drone_serial,
     affected_project_id |-> conflicts[i].affected_project_id,
     affected_project_name |-> conflicts[i].affected_project_name]]

(***************************************************************************)
(* Record Provider: reading the collections                                *)
(***************************************************************************)
Collections == {"pilots", "drones", "projects"}

\* the rows the CSV reader has appended when it returns: all of them, or
\* those parsed before the read raised
CsvRows(pv, collection) ==
  LET rows == pv.csv[collection]
      after == pv.csv_raises_after[collection]
  IN IF after = None \/ after[1] >= Len(rows) THEN rows
     ELSE SubSeq(rows, 1, after[1])

_get_pilots_from_csv(pv) == CsvRows(pv, "pilots")

_get_pilots_from_sheets(pv, sheet) ==
  IF "pilots" \in pv.sheet_raises THEN _get_pilots_from_csv(pv) ELSE sheet

get_all_pilots(pv, sheet) ==
  IF pv.use_google_sheets
  THEN _get_pilots_from_sheets(pv, sheet)
  ELSE _get_pilots_from_csv(pv)

_get_drones_from_csv(pv) == CsvRows(pv, "drones")

_get_drones_from_sheets(pv, sheet) ==
  IF "drones" \in pv.sheet_raises THEN _get_drones_from_csv(pv) ELSE sheet

get_all_drones(pv, sheet) ==
  IF pv.use_google_sheets
  THEN _get_drones_from_sheets(pv, sheet)
  ELSE _get_drones_from_csv(pv)

_get_projects_from_csv(pv) == CsvRows(pv, "projects")

_get_projects_from_sheets(pv, sheet) ==
  IF "projects" \in pv.sheet_raises THEN _get_projects_from_csv(pv) ELSE sheet

get_demo_projects(pv, sheet) ==
  IF pv.use_google_sheets /\ pv.missions_sheet
  THEN _get_projects_from_sheets(pv, sheet)
  ELSE _get_projects_from_csv(pv)

DOUBLE_BOOKING_PILOT == "Double Booking (Pilot)"
DOUBLE_BOOKING_DRONE == "Double Booking (Drone)"
CERTIFICATION_MISMATCH == "Certification Mismatch"
SKILL_MISMATCH == "Skill Level Mismatch"
LOCATION_MISMATCH == "Location Mismatch"
DRONE_MAINTENANCE == "Drone in Maintenance"
CAPABILITY_MISMATCH == "Capability Mismatch"

(***************************************************************************)
(* Overlap evaluator                                                       *)
(***************************************************************************)
DatesOverlapOpen(start1, end1, start2, end2) == start1 < end2 /\ end1 > start2

DatesOverlapHalfOpen(start1, end1, start2, end2) ==
  start1 <= end2 /\ end1 > start2

_dates_overlap(start1, end1, start2, end2) == start1 <= end2 /\ end1 >= start2

\* if self._dates_overlap(start1, end1, start2, end2): conflicts.append(...)
WhenOverlap(start1, end1, start2, end2, list) ==
  [raised |-> FALSE,
   conflicts |-> IF _dates_overlap(start1, end1, start2, end2)
                 THEN list ELSE <<>>,
   calls |-> {[start1 |-> start1, end1 |-> end1, start2 |-> start2,
               end2 |-> end2,
               result |-> _dates_overlap(start1, end1, start2, end2)]}]

(***************************************************************************)
(* The seven rules of the sweep                                            *)
(***************************************************************************)
\* the project is compared: not the pilot's own, and it lists the pilot
PilotBookingAnyProject(pilot, project) ==
  Some(project.name) /= pilot.current_assignment

PilotBookingOwnProject(pilot, project) ==
  In(pilot.id, project.assigned_pilots)

PilotBookingCompared(pilot, project) ==
  /\ Some(project.name) /= pilot.current_assignment
  /\ In(pilot.id, project.assigned_pilots)

PilotBookingBody(pilot, project) ==
  IF ~PilotBookingCompared(pilot, project) THEN Ok(<<>>)
  ELSE IF StrptimeRaises(project.start_date) \/ StrptimeRaises(project.end_date)
  THEN Raise
  ELSE WhenOverlap(pilot.assignment_start_date[1],
                   pilot.assignment_end_date[1],
                   strptime(project.start_date), strptime(project.end_date),
            <<Conflict(DOUBLE_BOOKING_PILOT, "Critical",
                       [template |-> "pilot is double-booked",
                        pilot |-> pilot.name,
                        assignment |-> pilot.current_assignment,
                        from |-> pilot.assignment_start_date,
                        to |-> pilot.assignment_end_date,
                        project |-> project.name,
                        project_start |-> project.start_date,
                        project_end |-> project.end_date],
                       Some(pilot), None, Some(project.id), Some(project.name))>>)

_detect_pilot_double_bookings(ps, prjs) ==
  Concat([i \in DOMAIN ps |->
    IF \/ ~Truthy(ps[i].current_assignment)
       \/ ps[i].assignment_start_date = None
       \/ ps[i].assignment_end_date = None
    THEN Ok(<<>>)
    ELSE Concat([j \in DOMAIN prjs |-> PilotBookingBody(ps[i], prjs[j])])])

DroneBookingCompared(drone, project) ==
  /\ Some(project.name) /= drone.current_assignment
  /\ In(drone.id, project.assigned_drones)

DroneBookingBody(drone, project) ==
  IF ~DroneBookingCompared(drone, project) THEN Ok(<<>>)
  ELSE IF StrptimeRaises(project.start_date) \/ StrptimeRaises(project.end_date)
  THEN Raise
  ELSE WhenOverlap(drone.assignment_start_date[1],
                   drone.assignment_end_date[1],
                   strptime(project.start_date), strptime(project.end_date),
            <<Conflict(DOUBLE_BOOKING_DRONE, "Critical",
                       [template |-> "drone is double-booked",
                        drone |-> drone.serial_number,
                        model |-> drone.model,
                        assignment |-> drone.current_assignment,
                        project |-> project.name],
                       None, Some(drone), Some(project.id), Some(project.name))>>)

_detect_drone_double_bookings(ds, prjs) ==
  Concat([i \in DOMAIN ds |->
    IF \/ ~Truthy(ds[i].current_assignment)
       \/ ds[i].assignment_start_date = None
       \/ ds[i].assignment_end_date = None
    THEN Ok(<<>>)
    ELSE Concat([j \in DOMAIN prjs |-> DroneBookingBody(ds[i], prjs[j])])])

CertificationBody(ps, project, pilot_id) ==
  LET pilot == FindById(ps, pilot_id)
      missing_certs ==
        Missing(project.required_certifications, pilot[1].certifications)
  IN IF pilot = None THEN Ok(<<>>)
     ELSE When(missing_certs /= <<>>,
               <<Conflict(CERTIFICATION_MISMATCH, "High",
                          [template |-> "pilot lacks required certifications",
                           pilot |-> pilot[1].name,
                           project |-> project.name,
                           missing |-> missing_certs],
                          pilot, None, Some(project.id), Some(project.name))>>)

_detect_certification_mismatches(ps, prjs) ==
  Concat([j \in DOMAIN prjs |->
    IF prjs[j].required_certifications = <<>> THEN Ok(<<>>)
    ELSE Concat([k \in DOMAIN prjs[j].assigned_pilots |->
           CertificationBody(ps, prjs[j], prjs[j].assigned_pilots[k])])])

SkillBody(ps, project, pilot_id) ==
  LET pilot == FindById(ps, pilot_id)
      required_idx == SkillIndex(project.required_skill_level[1])
      pilot_idx == SkillIndex(pilot[1].skill_level)
  IN IF pilot = None THEN Ok(<<>>)
     ELSE When(pilot_idx < required_idx,
               <<Conflict(SKILL_MISMATCH, "Medium",
                          [template |-> "pilot skill below project requirement",
                           pilot |-> pilot[1].name,
                           skill |-> pilot[1].skill_level,
                           project |-> project.name,
                           required |-> project.required_skill_level[1]],
                          pilot, None, Some(project.id), Some(project.name))>>)

SkillMismatchesOfCertified(ps, prjs) ==
  Concat([j \in DOMAIN prjs |->
    IF ~Truthy(prjs[j].required_skill_level) THEN Ok(<<>>)
    ELSE Concat([k \in DOMAIN prjs[j].assigned_pilots |->
           LET pilot == FindById(ps, prjs[j].assigned_pilots[k])
           IN IF pilot /= None
                 /\ Missing(prjs[j].required_certifications,
                            pilot[1].certifications) /= <<>>
              THEN Ok(<<>>)
              ELSE SkillBody(ps, prjs[j], prjs[j].assigned_pilots[k])])])

_detect_skill_mismatches(ps, prjs) ==
  Concat([j \in DOMAIN prjs |->
    IF ~Truthy(prjs[j].required_skill_level) THEN Ok(<<>>)
    ELSE Concat([k \in DOMAIN prjs[j].assigned_pilots |->
           SkillBody(ps, prjs[j], prjs[j].assigned_pilots[k])])])

LocationPilotBody(ps, project, pilot_id) ==
  LET pilot == FindById(ps, pilot_id)
  IN When(pilot /= None
            /\ lower(pilot[1].current_location) /= lower(project.location),
          <<Conflict(LOCATION_MISMATCH, "Medium",
                     [template |-> "pilot is not at the project location",
                      pilot |-> pilot[1].name,
                      pilot_location |-> pilot[1].current_location,
                      project |-> project.name,
                      project_location |-> project.location],
                     pilot, None, Some(project.id), Some(project.name))>>)

LocationDroneBody(ds, project, drone_id) ==
  LET drone == FindById(ds, drone_id)
  IN When(drone /= None
            /\ lower(drone[1].current_location) /= lower(project.location),
          <<Conflict(LOCATION_MISMATCH, "Medium",
                     [template |-> "drone is not at the project location",
                      drone |-> drone[1].serial_number,
                      drone_location |-> drone[1].current_location,
                      project |-> project.name,
                      project_location |-> project.location],
                     None, drone, Some(project.id), Some(project.name))>>)

LocationPairBody(pilot, ds, project, drone_id) ==
  LET drone == FindById(ds, drone_id)
  IN When(drone /= None
            /\ lower(pilot[1].current_location)
                 /= lower(drone[1].current_location),
          <<Conflict(LOCATION_MISMATCH, "High",
                     [template |-> "pilot and drone are in different places",
                      project |-> project.name,
                      pilot |-> pilot[1].name,
                      pilot_location |-> pilot[1].current_location,
                      drone |-> drone[1].serial_number,
                      drone_location |-> drone[1].current_location],
                     pilot, drone, Some(project.id), Some(project.name))>>)

_detect_location_mismatches(ps, ds, prjs) ==
  Concat([j \in DOMAIN prjs |->
    LET assigned_pilots == prjs[j].assigned_pilots
        assigned_drones == prjs[j].assigned_drones
    IN Then(Concat([k \in DOMAIN assigned_pilots |->
                     LocationPilotBody(ps, prjs[j], assigned_pilots[k])]),
       Then(Concat([k \in DOMAIN assigned_drones |->
                     LocationDroneBody(ds, prjs[j], assigned_drones[k])]),
            Concat([k \in DOMAIN assigned_pilots |->
                     LET pilot == FindById(ps, assigned_pilots[k])
                     IN IF pilot = None THEN Ok(<<>>)
                        ELSE Concat([m \in DOMAIN assigned_drones |->
                               LocationPairBody(pilot, ds, prjs[j],
                                                assigned_drones[m])])])))])

MaintenanceStatus(drone, project) ==
  LET d == drone[1]
  IN When(d.status = "Maintenance",
          <<Conflict(DRONE_MAINTENANCE, "Critical",
                     [template |-> "drone in maintenance is assigned",
                      drone |-> d.serial_number,
                      model |-> d.model,
                      project |-> project.name,
                      notes |-> IF d.notes = "" THEN "No details" ELSE d.notes],
                     None, drone, Some(project.id), Some(project.name))>>)

MaintenanceDue(drone, project) ==
  LET d == drone[1]
  IN IF d.next_maintenance_date = None THEN Ok(<<>>)
     ELSE IF StrptimeRaises(project.start_date)
               \/ StrptimeRaises(project.end_date)
     THEN Raise
     ELSE When(/\ strptime(project.start_date) <= d.next_maintenance_date[1]
               /\ d.next_maintenance_date[1] <= strptime(project.end_date),
               <<Conflict(DRONE_MAINTENANCE, "Medium",
                          [template |-> "maintenance is due during the project",
                           drone |-> d.serial_number,
                           due |-> d.next_maintenance_date,
                           project |-> project.name,
                           project_start |-> project.start_date,
                           project_end |-> project.end_date],
                          None, drone, Some(project.id), Some(project.name))>>)

MaintenanceEitherOr(ds, project, drone_id) ==
  LET drone == FindById(ds, drone_id)
  IN IF drone = None THEN Ok(<<>>)
     ELSE IF drone[1].status = "Maintenance"
          THEN MaintenanceStatus(drone, project)
          ELSE MaintenanceDue(drone, project)

MaintenanceBody(ds, project, drone_id) ==
  LET drone == FindById(ds, drone_id)
  IN IF drone = None THEN Ok(<<>>)
     ELSE Then(MaintenanceStatus(drone, project),
               MaintenanceDue(drone, project))

_detect_drone_maintenance_conflicts(ds, prjs) ==
  Concat([j \in DOMAIN prjs |->
    Concat([k \in DOMAIN prjs[j].assigned_drones |->
      MaintenanceBody(ds, prjs[j], prjs[j].assigned_drones[k])])])

CapabilityBody(ds, project, drone_id) ==
  LET drone == FindById(ds, drone_id)
      missing_caps ==
        Missing(project.required_capabilities, drone[1].capabilities)
  IN IF drone = None THEN Ok(<<>>)
     ELSE When(missing_caps /= <<>>,
               <<Conflict(CAPABILITY_MISMATCH, "High",
                          [template |-> "drone lacks required capabilities",
                           drone |-> drone[1].serial_number,
                           model |-> drone[1].model,
                           project |-> project.name,
                           missing |-> missing_caps],
                          None, drone, Some(project.id), Some(project.name))>>)

_detect_capability_mismatches(ds, prjs) ==
  Concat([j \in DOMAIN prjs |->
    IF prjs[j].required_capabilities = <<>> THEN Ok(<<>>)
    ELSE Concat([k \in DOMAIN prjs[j].assigned_drones |->
           CapabilityBody(ds, prjs[j], prjs[j].assigned_drones[k])])])

(***************************************************************************)
(* The sweep                                                               *)
(***************************************************************************)
DetectCapabilityFirst(ps, ds, prjs) ==
  Then(_detect_capability_mismatches(ds, prjs),
  Then(_detect_pilot_double_bookings(ps, prjs),
  Then(_detect_drone_double_bookings(ds, prjs),
  Then(_detect_certification_mismatches(ps, prjs),
  Then(_detect_skill_mismatches(ps, prjs),
  Then(_detect_location_mismatches(ps, ds, prjs),
       _detect_drone_maintenance_conflicts(ds, prjs)))))))

detect_all_conflicts(ps, ds, prjs) ==
  Then(_detect_pilot_double_bookings(ps, prjs),
  Then(_detect_drone_double_bookings(ds, prjs),
  Then(_detect_certification_mismatches(ps, prjs),
  Then(_detect_skill_mismatches(ps, prjs),
  Then(_detect_location_mismatches(ps, ds, prjs),
  Then(_detect_drone_maintenance_conflicts(ds, prjs),
       _detect_capability_mismatches(ds, prjs)))))))

(***************************************************************************)
(* The pre-assignment check                                                *)
(***************************************************************************)
CheckPilot(pilot, a) ==
  LET p == pilot[1]
      missing_certs == Missing(a.required_certs, p.certifications)
  IN Then(
       When(p.status = "On Leave",
            <<Conflict(DOUBLE_BOOKING_PILOT, "Critical",
                       [template |-> "pilot is on leave", pilot |-> p.name],
                       pilot, None, Some(a.project_id), None)>>),
     Then(
       IF p.assignment_start_date = None \/ p.assignment_end_date = None
       THEN Ok(<<>>)
       ELSE WhenOverlap(p.assignment_start_date[1], p.assignment_end_date[1],
                        a.start_date, a.end_date,
              <<Conflict(DOUBLE_BOOKING_PILOT, "Critical",
                         [template |-> "pilot is already assigned",
                          pilot |-> p.name,
                          assignment |-> p.current_assignment],
                         pilot, None, Some(a.project_id), None)>>),
     Then(
       When(missing_certs /= <<>>,
            <<Conflict(CERTIFICATION_MISMATCH, "High",
                       [template |-> "pilot lacks certifications",
                        pilot |-> p.name, missing |-> missing_certs],
                       pilot, None, Some(a.project_id), None)>>),
     Then(
       When(/\ In(a.required_skill, skill_order)
            /\ SkillIndex(p.skill_level) < SkillIndex(a.required_skill),
            <<Conflict(SKILL_MISMATCH, "Medium",
                       [template |-> "pilot skill below required",
                        pilot |-> p.name, skill |-> p.skill_level,
                        required |-> a.required_skill],
                       pilot, None, Some(a.project_id), None)>>),
       When(/\ a.location /= ""
            /\ lower(p.current_location) /= lower(a.location),
            <<Conflict(LOCATION_MISMATCH, "Medium",
                       [template |-> "pilot is elsewhere",
                        pilot |-> p.name,
                        pilot_location |-> p.current_location,
                        location |-> a.location],
                       pilot, None, Some(a.project_id), None)>>)))))

CheckDrone(drone, a) ==
  LET d == drone[1]
      missing_caps == Missing(a.required_caps, d.capabilities)
  IN Then(
       When(d.status = "Maintenance",
            <<Conflict(DRONE_MAINTENANCE, "Critical",
                       [template |-> "drone is in maintenance",
                        drone |-> d.serial_number],
                       None, drone, Some(a.project_id), None)>>),
     Then(
       IF d.assignment_start_date = None \/ d.assignment_end_date = None
       THEN Ok(<<>>)
       ELSE WhenOverlap(d.assignment_start_date[1], d.assignment_end_date[1],
                        a.start_date, a.end_date,
              <<Conflict(DOUBLE_BOOKING_DRONE, "Critical",
                         [template |-> "drone is already assigned",
                          drone |-> d.serial_number,
                          assignment |-> d.current_assignment],
                         None, drone, Some(a.project_id), None)>>),
     Then(
       When(missing_caps /= <<>>,
            <<Conflict(CAPABILITY_MISMATCH, "High",
                       [template |-> "drone lacks capabilities",
                        drone |-> d.serial_number, missing |-> missing_caps],
                       None, drone, Some(a.project_id), None)>>),
       When(/\ a.location /= ""
            /\ lower(d.current_location) /= lower(a.location),
            <<Conflict(LOCATION_MISMATCH, "Medium",
                       [template |-> "drone is elsewhere",
                        drone |-> d.serial_number,
                        drone_location |-> d.current_location,
                        location |-> a.location],
                       None, drone, Some(a.project_id), None)>>))))

CheckDroneUnlessPilot(ps, ds, a) ==
  IF Truthy(a.pilot_id)
  THEN LET pilot == FindById(ps, a.pilot_id[1])
       IN IF pilot = None THEN Ok(<<>>) ELSE CheckPilot(pilot, a)
  ELSE IF ~Truthy(a.drone_id) THEN Ok(<<>>)
  ELSE LET drone == FindById(ds, a.drone_id[1])
       IN IF drone = None THEN Ok(<<>>) ELSE CheckDrone(drone, a)

\* a is the argument record of the call
check_assignment_conflicts(ps, ds, a) ==
  Then(
    IF ~Truthy(a.pilot_id) THEN Ok(<<>>)
    ELSE LET pilot == FindById(ps, a.pilot_id[1])
         IN IF pilot = None THEN Ok(<<>>) ELSE CheckPilot(pilot, a),
    IF ~Truthy(a.drone_id) THEN Ok(<<>>)
    ELSE LET drone == FindById(ds, a.drone_id[1])
         IN IF drone = None THEN Ok(<<>>) ELSE CheckDrone(drone, a))

(***************************************************************************)
(* Replacement pilot ranking                                               *)
(***************************************************************************)
TopN == 5

GetOrAbsent(o, default) == o

\* dict.get(key, default) on an argument that may be absent (None here)
GetOr(o, default) == IF o = None THEN Some(default) ELSE o

RecommendedDespiteOneIssue(issues) == Len(issues) <= 1

\* "recommended": len(issues) == 0
Recommended(issues) == Len(issues) = 0

\* the requirements in force after the project's own values fill the gaps
PilotRequirements(a, prjs) ==
  LET project == FindById(prjs, a.project_id)
      certs0 == a.required_certifications
      skill0 == GetOr(a.required_skill_level, "Intermediate")
      loc0 == a.preferred_location
  IN [required_certs |->
        IF project /= None /\ certs0 = <<>>
        THEN project[1].required_certifications ELSE certs0,
      required_skill |->
        IF project /= None /\ ~Truthy(skill0)
        THEN project[1].required_skill_level ELSE skill0,
      preferred_location |->
        IF project /= None /\ ~Truthy(loc0)
        THEN Some(project[1].location) ELSE loc0]

SeniorityBonusHeavy(idx) == idx * 15

\* score += pilot_skill_idx * 5
SeniorityBonus(idx) == idx * 5

\* one iteration of the scoring loop, for a pilot that passed the filters
ScorePilot(pilot, req) ==
  LET required_skill_idx ==
        IF req.required_skill = None THEN 0
        ELSE SkillIndex(req.required_skill[1])
      missing_certs == Missing(req.required_certs, pilot.certifications)
      pilot_skill_idx == SkillIndex(pilot.skill_level)
      located == /\ Truthy(req.preferred_location)
                 /\ lower(pilot.current_location)
                      = lower(req.preferred_location[1])
      cert_issue ==
        IF missing_certs /= <<>>
        THEN <<[issue |-> "Missing certs", missing |-> missing_certs]>>
        ELSE <<>>
      skill_issue ==
        IF pilot_skill_idx >= required_skill_idx THEN <<>>
        ELSE <<[issue |-> "Skill level below required",
                skill |-> pilot.skill_level,
                required |-> req.required_skill]>>
      location_issue ==
        IF ~located /\ Truthy(req.preferred_location)
        THEN <<[issue |-> "In another location",
                location |-> pilot.current_location,
                preferred |-> req.preferred_location]>>
        ELSE <<>>
      issues == cert_issue \o skill_issue \o location_issue
  IN [pilot |-> pilot,
      score |-> (IF missing_certs /= <<>> THEN 0 ELSE 30)
                + (IF pilot_skill_idx >= required_skill_idx THEN 25 ELSE 0)
                + (IF located THEN 25 ELSE 0)
                + SeniorityBonus(pilot_skill_idx),
      issues |-> issues,
      recommended |-> Recommended(issues)]

InsertBeforeEqual(c, sorted) ==
  LET k == Cardinality({i \in DOMAIN sorted : sorted[i].score > c.score})
  IN SubSeq(sorted, 1, k) \o <<c>> \o SubSeq(sorted, k + 1, Len(sorted))

\* list.sort(key=score, reverse=True): stable, equal scores keep their order
InsertByScore(c, sorted) ==
  LET k == Cardinality({i \in DOMAIN sorted : sorted[i].score >= c.score})
  IN SubSeq(sorted, 1, k) \o <<c>> \o SubSeq(sorted, k + 1, Len(sorted))

RECURSIVE SortByScore(_)
SortByScore(cs) ==
  IF Len(cs) = 0 THEN <<>>
  ELSE InsertByScore(cs[Len(cs)], SortByScore(SubSeq(cs, 1, Len(cs) - 1)))

\* candidates[:5]
Truncate(cs) == SubSeq(cs, 1, IF Len(cs) < TopN THEN Len(cs) ELSE TopN)

_find_replacement_pilot(ps, prjs, a) ==
  LET req == PilotRequirements(a, prjs)
      eligible == SelectSeq(ps, LAMBDA p :
                    /\ Some(p.id) /= a.exclude_pilot_id
                    /\ p.status = "Available")
      candidates == [i \in DOMAIN eligible |-> ScorePilot(eligible[i], req)]
  IN [project_id |-> a.project_id,
      required_certifications |-> req.required_certs,
      required_skill_level |-> req.required_skill,
      preferred_location |-> req.preferred_location,
      candidates |-> Truncate(SortByScore(candidates))]

(***************************************************************************)
(* Replacement drone ranking                                               *)
(***************************************************************************)
\* the requirements in force after the project's own values fill the gaps
DroneRequirements(a, prjs) ==
  LET project == FindById(prjs, a.project_id)
      caps0 == a.required_capabilities
      loc0 == a.preferred_location
  IN [required_caps |->
        IF project /= None /\ caps0 = <<>>
        THEN project[1].required_capabilities ELSE caps0,
      preferred_location |->
        IF project /= None /\ ~Truthy(loc0)
        THEN Some(project[1].location) ELSE loc0]

CapabilityBonusUnweighted(drone) == Len(drone.capabilities)

\* score += len(drone.capabilities) * 2
CapabilityBonus(drone) == Len(drone.capabilities) * 2

\* one iteration of the scoring loop, for a drone that passed the filters
ScoreDrone(drone, req) ==
  LET missing_caps == Missing(req.required_caps, drone.capabilities)
      located == /\ Truthy(req.preferred_location)
                 /\ lower(drone.current_location)
                      = lower(req.preferred_location[1])
      caps_issue ==
        IF missing_caps /= <<>>
        THEN <<[issue |-> "Missing capabilities", missing |-> missing_caps]>>
        ELSE <<>>
      location_issue ==
        IF ~located /\ Truthy(req.preferred_location)
        THEN <<[issue |-> "In another location",
                location |-> drone.current_location,
                preferred |-> req.preferred_location]>>
        ELSE <<>>
      issues == caps_issue \o location_issue
  IN [drone |-> drone,
      score |-> (IF missing_caps /= <<>> THEN 0 ELSE 40)
                + (IF located THEN 30 ELSE 0)
                + CapabilityBonus(drone),
      issues |-> issues,
      recommended |-> Recommended(issues)]

_find_replacement_drone(ds, prjs, a) ==
  LET req == DroneRequirements(a, prjs)
      eligible == SelectSeq(ds, LAMBDA d :
                    /\ Some(d.id) /= a.exclude_drone_id
                    /\ d.status = "Available")
      candidates == [i \in DOMAIN eligible |-> ScoreDrone(eligible[i], req)]
  IN [project_id |-> a.project_id,
      required_capabilities |-> req.required_caps,
      preferred_location |-> req.preferred_location,
      candidates |-> Truncate(SortByScore(candidates))]

(***************************************************************************)
(* Records of the snapshot                                                 *)
(***************************************************************************)
PilotName(id) == IF id = "P1" THEN "Arjun" ELSE IF id = "P2" THEN "Neha" ELSE id

Pilot(id, skill, certs, loc, asg, from, to, status) ==
  [id |-> id, name |-> PilotName(id), skill_level |-> skill,
   certifications |-> certs, current_location |-> loc,
   current_assignment |-> asg, assignment_start_date |-> from,
   assignment_end_date |-> to, status |-> status]

Drone(id, caps, loc, asg, from, to, status, due) ==
  [id |-> id, serial_number |-> IF id = "D1" THEN "M300-D1" ELSE "Mavic-3-D2",
   model |-> IF id = "D1" THEN "M300" ELSE "Mavic 3",
   capabilities |-> caps, current_location |-> loc,
   current_assignment |-> asg, assignment_start_date |-> from,
   assignment_end_date |-> to, status |-> status,
   next_maintenance_date |-> due, notes |-> ""]

Project(id, name, loc, from, to, certs, caps, skill, aps, ads) ==
  [id |-> id, name |-> name, location |-> loc, start_date |-> from,
   end_date |-> to, required_certifications |-> certs,
   required_capabilities |-> caps, required_skill_level |-> skill,
   assigned_pilots |-> aps, assigned_drones |-> ads]

OptIso == {None} \cup {Some(isoformat(d)) : d \in Dates}
First == Some(isoformat(1))
Last == Some(isoformat(MaxDate))

PlainPilot(id) ==
  Pilot(id, "Intermediate", <<>>, "Pune", None, None, None, "Available")
PlainDrone(id) ==
  Drone(id, <<>>, "Pune", None, None, None, "Available", None)
PlainProject(id, name, aps, ads) ==
  Project(id, name, "Pune", First, Last, <<>>, <<>>, Some("Intermediate"),
          aps, ads)

Pending == [status |-> "pending"]
Sweep == [op |-> "detect_all_conflicts"]

\* connected to the spreadsheet with all three worksheets, every read
\* succeeding; the CSV files are not read
Connected ==
  [use_google_sheets |-> TRUE, missions_sheet |-> TRUE, sheet_raises |-> {},
   csv |-> [c \in Collections |-> <<>>],
   csv_raises_after |-> [c \in Collections |-> None]]

\* a generator that yields different values for as long as a run lasts
Tape ==
  <<"3F2A91C0", "9C41D7E2", "0B77E4A1", "D2C6A85F", "71E09B3C", "A84F1D26",
    "5E3B7C90", "C0DE12F4", "2F9A63B7", "E6104D8A", "48B5F2C1", "93D7A0E5">>

Generator == [tape |-> Tape, next |-> 1]

\* no worksheet rows of its own: the provider's answer is given as parsed
NoRows == [c \in Collections |-> <<>>]

\* AgentService.__init__: the provider the keys select, nothing disabled,
\* no session yet
AgentService(ai_provider) ==
  [ai_provider |-> ai_provider, ai_disabled_reason |-> None, sessions |-> <<>>]

StartAll(ps, ds, prjs, req, pv, gen, rws, ag) ==
  /\ pilots = ps
  /\ drones = ds
  /\ projects = prjs
  /\ request = req
  /\ response = Pending
  /\ overlapCalls = {}
  /\ earlier = <<>>
  /\ provider = pv
  /\ uuid4 = gen
  /\ cells = rws
  /\ agent = ag

StartWith(ps, ds, prjs, req, pv) ==
  StartAll(ps, ds, prjs, req, pv, Generator, NoRows, AgentService(None))

Start(ps, ds, prjs, req) == StartWith(ps, ds, prjs, req, Connected)

(***************************************************************************)
(* Snapshots under sweep                                                   *)
(***************************************************************************)
Names == {None, Some(""), Some("A"), Some("B")}

\* a pilot's recorded assignment against the windows of the projects
InitPilotBooking ==
  \E asg \in Names, from, to \in OptDates, jfrom, jto \in OptIso,
     aps1 \in {<<>>, <<"P1">>}, name2 \in {"A", "B"},
     aps2 \in {<<>>, <<"P2", "P1">>} :
    Start(<<Pilot("P1", "Intermediate", <<>>, "Pune", asg, from, to, "Assigned"),
            Pilot("P2", "Intermediate", <<>>, "Pune", Some("B"),
                  Some(1), Some(1), "Assigned")>>,
          <<PlainDrone("D1")>>,
          <<Project("PRJ1", "A", "Pune", jfrom, jto, <<>>, <<>>,
                    Some("Intermediate"), aps1, <<>>),
            PlainProject("PRJ2", name2, aps2, <<>>)>>,
          Sweep)

InitDroneBooking ==
  \E asg \in Names, from, to \in OptDates, jfrom, jto \in OptIso,
     ads1 \in {<<>>, <<"D1">>}, name2 \in {"A", "B"},
     ads2 \in {<<>>, <<"D2", "D1">>} :
    Start(<<PlainPilot("P1")>>,
          <<Drone("D1", <<>>, "Pune", asg, from, to, "Deployed", None),
            Drone("D2", <<>>, "Pune", Some("B"), Some(1), Some(1),
                  "Deployed", None)>>,
          <<Project("PRJ1", "A", "Pune", jfrom, jto, <<>>, <<>>,
                    Some("Intermediate"), <<>>, ads1),
            PlainProject("PRJ2", name2, <<>>, ads2)>>,
          Sweep)

CertLists == {<<>>, <<"DGCA">>, <<"Night Ops", "DGCA">>}
CapLists == {<<>>, <<"Thermal">>, <<"LiDAR", "Thermal">>}
SkillLevels == {skill_order[i] : i \in DOMAIN skill_order}
RequiredSkills ==
  {None, Some(""), Some("Guru")} \cup {Some(l) : l \in SkillLevels}

\* certifications, skill levels and capabilities against the requirements
InitQualification ==
  \E rcerts, pcerts \in CertLists, rskill \in RequiredSkills,
     pskill \in SkillLevels, rcaps, dcaps \in CapLists,
     aps \in {<<>>, <<"P1">>, <<"P9", "P2", "P1">>},
     ads \in {<<"D1">>, <<"D9", "D2", "D1">>} :
    Start(<<Pilot("P1", pskill, pcerts, "Pune", None, None, None, "Available"),
            Pilot("P2", "Beginner", <<"DGCA">>, "Pune", None, None, None,
                  "Available")>>,
          <<Drone("D1", dcaps, "Pune", None, None, None, "Available", None),
            Drone("D2", <<"Thermal">>, "Pune", None, None, None,
                  "Available", None)>>,
          <<Project("PRJ1", "A", "Pune", First, Last, rcerts, rcaps, rskill,
                    aps, ads),
            Project("PRJ2", "B", "Pune", First, Last, <<"DGCA">>, <<>>,
                    Some("Advanced"), <<"P2">>, <<>>)>>,
          Sweep)

Places == {"Pune", "pune", "Mumbai"}

\* where pilots, drones and the project are
InitLocation ==
  \E p1 \in Places, p2 \in {"Pune", "Mumbai"}, d1 \in Places,
     d2 \in {"PUNE", "Mumbai"}, j \in Places \cup {""},
     aps \in {<<>>, <<"P1">>, <<"P1", "P2">>, <<"P9", "P2">>},
     ads \in {<<>>, <<"D1">>, <<"D1", "D2">>, <<"D9", "D2">>} :
    Start(<<Pilot("P1", "Intermediate", <<>>, p1, None, None, None, "Available"),
            Pilot("P2", "Intermediate", <<>>, p2, None, None, None,
                  "Available")>>,
          <<Drone("D1", <<>>, d1, None, None, None, "Available", None),
            Drone("D2", <<>>, d2, None, None, None, "Available", None)>>,
          <<Project("PRJ1", "A", j, First, Last, <<>>, <<>>,
                    Some("Intermediate"), aps, ads),
            PlainProject("PRJ2", "B", <<>>, <<>>)>>,
          Sweep)

DroneStatuses == {"Available", "Deployed", "Maintenance", "Unavailable"}

\* drone status and next maintenance date against the project's window
InitMaintenance ==
  \E status \in DroneStatuses, due \in OptDates, jfrom, jto \in OptIso,
     ads \in {<<>>, <<"D1">>, <<"D9", "D2", "D1">>} :
    Start(<<PlainPilot("P1")>>,
          <<Drone("D1", <<>>, "Pune", None, None, None, status, due),
            Drone("D2", <<>>, "Pune", None, None, None, "Maintenance", None)>>,
          <<Project("PRJ1", "A", "Pune", jfrom, jto, <<>>, <<>>,
                    Some("Intermediate"), <<>>, ads),
            PlainProject("PRJ2", "B", <<>>, <<"D2">>)>>,
          Sweep)

\* every rule at once: a pilot and a drone booked on A and listed on B
InitMixed ==
  \E jfrom \in {First, Last}, rcerts \in {<<>>, <<"DGCA">>},
     rskill \in {Some("Intermediate"), Some("Expert")},
     j \in {"Pune", "Mumbai"}, d1 \in {"Pune", "Mumbai"},
     status \in {"Deployed", "Maintenance"}, due \in {None, Some(MaxDate)},
     rcaps \in {<<>>, <<"Thermal">>}, aps1 \in {<<>>, <<"P2", "P1">>} :
    Start(<<Pilot("P1", "Intermediate", <<>>, "Pune", Some("A"), Some(1),
                  Some(MaxDate - 1), "Assigned"),
            Pilot("P2", "Beginner", <<>>, "Mumbai", None, None, None,
                  "Available")>>,
          <<Drone("D1", <<>>, d1, Some("A"), Some(1), Some(MaxDate - 1),
                  status, due)>>,
          <<Project("PRJ1", "A", "Pune", First, Last, <<"DGCA">>, <<>>,
                    Some("Advanced"), aps1, <<"D1">>),
            Project("PRJ2", "B", j, jfrom, Last, rcerts, rcaps, rskill,
                    <<"P1">>, <<"D1">>)>>,
          Sweep)

InitSweep ==
  \/ InitPilotBooking
  \/ InitDroneBooking
  \/ InitQualification
  \/ InitLocation
  \/ InitMaintenance
  \/ InitMixed

(***************************************************************************)
(* Proposed placements under the pre-assignment check                      *)
(***************************************************************************)
CheckCall(pilot_id, drone_id, from, to, certs, caps, skill, loc) ==
  [op |-> "check_assignment_conflicts", pilot_id |-> pilot_id,
   drone_id |-> drone_id, project_id |-> "PRJ1", start_date |-> from,
   end_date |-> to, required_certs |-> certs, required_caps |-> caps,
   required_skill |-> skill, location |-> loc]

Ids(id) == {None, Some(""), Some(id), Some("X9")}

\* the pilot's recorded window against the proposed one
InitCheckPilotWindow ==
  \E status \in {"Available", "On Leave"}, from, to \in OptDates,
     pilot_id \in Ids("P1"), drone_id \in {None, Some("D1")},
     start, end \in Dates :
    Start(<<PlainPilot("P2"),
            Pilot("P1", "Intermediate", <<>>, "Pune", Some("A"), from, to,
                  status)>>,
          <<Drone("D1", <<>>, "Pune", Some("A"), Some(1), Some(1),
                  "Deployed", None)>>,
          <<PlainProject("PRJ1", "B", <<>>, <<>>)>>,
          CheckCall(pilot_id, drone_id, start, end, <<>>, <<>>,
                    "Intermediate", "Pune"))

InitCheckDroneWindow ==
  \E status \in {"Available", "Maintenance"}, from, to \in OptDates,
     drone_id \in Ids("D1"), start, end \in Dates :
    Start(<<PlainPilot("P1")>>,
          <<PlainDrone("D2"),
            Drone("D1", <<>>, "Pune", Some("A"), from, to, status, None)>>,
          <<PlainProject("PRJ1", "B", <<>>, <<>>)>>,
          CheckCall(None, drone_id, start, end, <<>>, <<>>,
                    "Intermediate", "Pune"))

\* certifications, skill and place against what the caller requires
InitCheckPilotQualification ==
  \E pcerts, rcerts \in CertLists, pskill \in SkillLevels,
     rskill \in {"", "Guru", "Beginner", "Advanced", "Expert"},
     p \in Places, loc \in {"", "PUNE", "Mumbai"} :
    Start(<<Pilot("P1", pskill, pcerts, p, None, None, None, "Available")>>,
          <<PlainDrone("D1")>>,
          <<PlainProject("PRJ1", "B", <<>>, <<>>)>>,
          CheckCall(Some("P1"), None, 1, MaxDate, rcerts, <<>>, rskill, loc))

InitCheckDroneQualification ==
  \E dcaps, rcaps \in CapLists, status \in DroneStatuses,
     d \in Places, loc \in {"", "PUNE", "Mumbai"} :
    Start(<<PlainPilot("P1")>>,
          <<Drone("D1", dcaps, d, None, None, None, status, None)>>,
          <<PlainProject("PRJ1", "B", <<>>, <<>>)>>,
          CheckCall(None, Some("D1"), 1, MaxDate, <<>>, rcaps,
                    "Intermediate", loc))

\* all nine checks of one call, each met or not
InitCheckAll ==
  \E pstatus \in {"Assigned", "On Leave"}, pto \in {Some(1), Some(MaxDate)},
     pcerts \in {<<>>, <<"DGCA">>}, pskill \in {"Beginner", "Expert"},
     p \in {"Pune", "Mumbai"}, dstatus \in {"Deployed", "Maintenance"},
     dto \in {Some(1), Some(MaxDate)}, dcaps \in {<<>>, <<"Thermal">>},
     d \in {"pune", "Mumbai"} :
    Start(<<Pilot("P1", pskill, pcerts, p, Some("A"), Some(1), pto, pstatus)>>,
          <<Drone("D1", dcaps, d, Some("A"), Some(1), dto, dstatus, None)>>,
          <<PlainProject("PRJ1", "B", <<>>, <<>>)>>,
          CheckCall(Some("P1"), Some("D1"), MaxDate, MaxDate, <<"DGCA">>,
                    <<"Thermal">>, "Advanced", "Pune"))

InitCheck ==
  \/ InitCheckPilotWindow
  \/ InitCheckDroneWindow
  \/ InitCheckPilotQualification
  \/ InitCheckDroneQualification
  \/ InitCheckAll

(***************************************************************************)
(* Requests for a replacement pilot                                        *)
(***************************************************************************)
RankPilotCall(project_id, certs, skill, loc, exclude) ==
  [op |-> "find_replacement_pilot", project_id |-> project_id,
   required_certifications |-> certs, required_skill_level |-> skill,
   preferred_location |-> loc, exclude_pilot_id |-> exclude]

InitRankPilot ==
  \E pcerts, rcerts \in CertLists, pskill \in SkillLevels,
     p \in {"Pune", "Mumbai"}, status \in {"Available", "Assigned"},
     rskill \in {None, Some(""), Some("Guru"), Some("Expert")},
     loc \in {None, Some("pune"), Some("Mumbai")},
     exclude \in {None, Some("P2")}, project_id \in {"PRJ1", "PRJ9"} :
    Start(<<Pilot("P2", "Advanced", <<"DGCA">>, "Mumbai", None, None, None,
                  "Available"),
            Pilot("P1", pskill, pcerts, p, None, None, None, status),
            Pilot("P3", "Expert", <<>>, "Pune", None, None, None,
                  "Available")>>,
          <<PlainDrone("D1")>>,
          <<Project("PRJ1", "A", "PUNE", First, Last, <<"DGCA">>, <<>>,
                    Some("Advanced"), <<>>, <<>>)>>,
          RankPilotCall(project_id, rcerts, rskill, loc, exclude))

RankDroneCall(project_id, caps, loc, exclude) ==
  [op |-> "find_replacement_drone", project_id |-> project_id,
   required_capabilities |-> caps, preferred_location |-> loc,
   exclude_drone_id |-> exclude]

InitRankDrone ==
  \E dcaps, rcaps \in CapLists, d \in Places,
     status \in {"Available", "Maintenance"},
     loc \in {None, Some(""), Some("pune"), Some("Mumbai")},
     exclude \in {None, Some("D2")}, project_id \in {"PRJ1", "PRJ9"} :
    Start(<<PlainPilot("P1")>>,
          <<Drone("D2", <<"Thermal">>, "Mumbai", None, None, None,
                  "Available", None),
            Drone("D1", dcaps, d, None, None, None, status, None),
            Drone("D3", <<"LiDAR", "Thermal", "RGB">>, "Pune", None, None,
                  None, "Available", None)>>,
          <<Project("PRJ1", "A", "PUNE", First, Last, <<>>, <<"Thermal">>,
                    Some("Advanced"), <<>>, <<>>)>>,
          RankDroneCall(project_id, rcaps, loc, exclude))

\* pools of more than five eligible records, some of equal score
InitRankPilotPool ==
  \E pskill \in SkillLevels, p \in {"Pune", "Mumbai"},
     status \in {"Available", "On Leave"},
     rcerts \in {<<>>, <<"DGCA">>}, rskill \in {None, Some("Advanced")},
     loc \in {None, Some("Pune")},
     exclude \in {None, Some("P1"), Some("P7")} :
    Start(<<Pilot("P1", "Beginner", <<>>, "Pune", None, None, None,
                  "Available"),
            Pilot("P2", "Expert", <<"DGCA">>, "Mumbai", None, None, None,
                  "Available"),
            Pilot("P3", "Intermediate", <<"DGCA">>, "Pune", None, None, None,
                  "Available"),
            Pilot("P4", pskill, <<>>, p, None, None, None, status),
            Pilot("P5", "Intermediate", <<"DGCA">>, "pune", None, None, None,
                  "Available"),
            Pilot("P6", "Advanced", <<>>, "Mumbai", None, None, None,
                  "Available"),
            Pilot("P7", "Expert", <<"DGCA">>, "Pune", None, None, None,
                  "Available")>>,
          <<PlainDrone("D1")>>,
          <<PlainProject("PRJ1", "A", <<>>, <<>>)>>,
          RankPilotCall("PRJ9", rcerts, rskill, loc, exclude))

InitRankDronePool ==
  \E dcaps \in CapLists, d \in {"Pune", "Mumbai"},
     status \in {"Available", "Deployed"},
     rcaps \in {<<>>, <<"Thermal">>}, loc \in {None, Some("Pune")},
     exclude \in {None, Some("D1"), Some("D6")} :
    Start(<<PlainPilot("P1")>>,
          <<Drone("D1", <<>>, "Pune", None, None, None, "Available", None),
            Drone("D2", <<"Thermal">>, "Mumbai", None, None, None,
                  "Available", None),
            Drone("D3", <<"Thermal">>, "Pune", None, None, None,
                  "Available", None),
            Drone("D4", dcaps, d, None, None, None, status, None),
            Drone("D5", <<"Thermal">>, "pune", None, None, None,
                  "Available", None),
            Drone("D6", <<"LiDAR", "Thermal">>, "Mumbai", None, None, None,
                  "Available", None),
            Drone("D7", <<>>, "Mumbai", None, None, None, "Available",
                  None)>>,
          <<PlainProject("PRJ1", "A", <<>>, <<>>)>>,
          RankDroneCall("PRJ9", rcaps, loc, exclude))

\* a pilot and the same pilot with one more certification, in one pool
InitRankPilotCertified ==
  \E pcerts \in CertLists \cup {<<"Night Ops">>},
     added \in {"DGCA", "Night Ops", "BVLOS"},
     pskill \in SkillLevels, p \in {"Pune", "Mumbai"},
     rcerts \in CertLists \cup {<<"BVLOS">>},
     rskill \in {None, Some("Expert")}, loc \in {None, Some("Pune")} :
    /\ ~In(added, pcerts)
    /\ Start(<<Pilot("P1", pskill, pcerts, p, None, None, None, "Available"),
               Pilot("P2", pskill, Append(pcerts, added), p, None, None, None,
                     "Available")>>,
             <<PlainDrone("D1")>>,
             <<PlainProject("PRJ1", "A", <<>>, <<>>)>>,
             RankPilotCall("PRJ9", rcerts, rskill, loc, None))

InitRank ==
  \/ InitRankPilot
  \/ InitRankDrone
  \/ InitRankPilotPool
  \/ InitRankDronePool
  \/ InitRankPilotCertified

Init == InitSweep \/ InitCheck \/ InitRank


(***************************************************************************)
(* Operations                                                              *)
(***************************************************************************)
\* the answer of a run of the sweep at time now, one id drawn per conflict
Swept(now) ==
  LET out == detect_all_conflicts(get_all_pilots(provider, pilots),
                                  get_all_drones(provider, drones),
                                  get_demo_projects(provider, projects))
  IN /\ response' = [status |-> IF out.raised THEN "raised" ELSE "returned",
                     conflicts |-> Stamped(out.conflicts, uuid4, now)]
     /\ overlapCalls' = out.calls
     /\ uuid4' = Drawn(uuid4, Len(out.conflicts))

DetectAllConflicts ==
  /\ request.op = "detect_all_conflicts"
  /\ response = Pending
  /\ Swept(1)
  /\ UNCHANGED <<pilots, drones, projects, request, earlier, provider, cells,
                 agent>>

CheckAssignmentConflicts ==
  /\ request.op = "check_assignment_conflicts"
  /\ response = Pending
  /\ LET out == check_assignment_conflicts(
                  get_all_pilots(provider, pilots),
                  get_all_drones(provider, drones), request)
     IN /\ response' =
             [status |-> IF out.raised THEN "raised" ELSE "returned",
              conflicts |-> Stamped(out.conflicts, uuid4, 1)]
        /\ overlapCalls' = out.calls
        /\ uuid4' = Drawn(uuid4, Len(out.conflicts))
  /\ UNCHANGED <<pilots, drones, projects, request, earlier, provider, cells,
                 agent>>

FindReplacementPilotReserving ==
  /\ request.op = "find_replacement_pilot"
  /\ response = Pending
  /\ response' =
       [status |-> "returned",
        result |-> _find_replacement_pilot(
                     get_all_pilots(provider, pilots),
                     get_demo_projects(provider, projects), request)]
  /\ pilots' = [i \in DOMAIN pilots |->
                  IF pilots[i].status = "Available"
                  THEN [pilots[i] EXCEPT !.status = "Assigned"]
                  ELSE pilots[i]]
  /\ UNCHANGED <<drones, projects, request, overlapCalls, earlier,
                 provider, uuid4, cells, agent>>

FindReplacementPilot ==
  /\ request.op = "find_replacement_pilot"
  /\ response = Pending
  /\ response' =
       [status |-> "returned",
        result |-> _find_replacement_pilot(
                     get_all_pilots(provider, pilots),
                     get_demo_projects(provider, projects), request)]
  /\ UNCHANGED <<pilots, drones, projects, request, overlapCalls, earlier,
                 provider, uuid4, cells, agent>>

FindReplacementDrone ==
  /\ request.op = "find_replacement_drone"
  /\ response = Pending
  /\ response' =
       [status |-> "returned",
        result |-> _find_replacement_drone(
                     get_all_drones(provider, drones),
                     get_demo_projects(provider, projects), request)]
  /\ UNCHANGED <<pilots, drones, projects, request, overlapCalls, earlier,
                 provider, uuid4, cells, agent>>

Next ==
  \/ DetectAllConflicts
  \/ CheckAssignmentConflicts
  \/ FindReplacementPilot
  \/ FindReplacementDrone


Spec == Init /\ [][Next]_vars

(***************************************************************************)
(* The sweep over a provider whose reads raise                             *)
(***************************************************************************)
\* the spreadsheet's rows: P1 on PRJ1 without the certification, the level
\* and the place it asks for, the drone D1 in maintenance
SheetPilots ==
  <<Pilot("P1", "Beginner", <<>>, "Mumbai", None, None, None, "Available")>>
SheetDrones ==
  <<Drone("D1", <<>>, "Pune", None, None, None, "Maintenance", None)>>
SheetProjects ==
  <<Project("PRJ1", "A", "Pune", First, Last, <<"DGCA">>, <<>>,
            Some("Advanced"), <<"P1">>, <<"D1">>)>>

\* the rows of the local CSV files: older data
CsvFiles ==
  [c \in Collections |->
    CASE c = "pilots" ->
           <<Pilot("P1", "Expert", <<"DGCA">>, "Pune", None, None, None,
                   "Available"),
             Pilot("P2", "Beginner", <<>>, "Pune", None, None, None,
                   "Available")>>
      [] c = "drones" ->
           <<PlainDrone("D1"),
             Drone("D2", <<>>, "Mumbai", None, None, None, "Available", None)>>
      [] c = "projects" ->
           <<Project("PRJ1", "A", "Pune", First, Last, <<"DGCA">>, <<>>,
                     Some("Advanced"), <<"P1">>, <<"D1">>),
             Project("PRJ2", "B", "Pune", First, Last, <<>>, <<>>,
                     Some("Advanced"), <<"P2">>, <<"D2">>)>>]

\* connected or in demo mode, with or without the missions worksheet, any
\* of the reads raising: a worksheet read as a whole, a CSV read before its
\* first row (file not found) or after it
InitProvider ==
  \E use_google_sheets, missions_sheet \in BOOLEAN,
     sheet_raises \in SUBSET Collections,
     csv_raises_after \in [Collections -> {None, Some(0), Some(1)}] :
    /\ missions_sheet => use_google_sheets
    /\ sheet_raises /= {} => use_google_sheets
    /\ StartWith(SheetPilots, SheetDrones, SheetProjects, Sweep,
                 [use_google_sheets |-> use_google_sheets,
                  missions_sheet |-> missions_sheet,
                  sheet_raises |-> sheet_raises,
                  csv |-> CsvFiles,
                  csv_raises_after |-> csv_raises_after])

NextProvider == DetectAllConflicts

SpecProvider == InitProvider /\ [][NextProvider]_vars

(***************************************************************************)
(* The sweep repeated over an unchanged snapshot                           *)
(***************************************************************************)
\* GET /api/conflicts once more: a later run, with ids drawn anew
DetectAllConflictsAgain ==
  /\ request.op = "detect_all_conflicts"
  /\ response /= Pending
  /\ Len(earlier) + 1 < MaxRuns
  /\ Swept(Len(earlier) + 2)
  /\ earlier' = Append(earlier, response)
  /\ UNCHANGED <<pilots, drones, projects, request, provider, cells, agent>>

InitRepeat == InitLocation \/ InitMaintenance \/ InitMixed

NextRepeat ==
  \/ DetectAllConflicts
  \/ DetectAllConflictsAgain

SpecRepeat == InitRepeat /\ [][NextRepeat]_vars

(***************************************************************************)
(* The sweep repeated, its ids drawn from any generator                    *)
(***************************************************************************)
\* P1 and D1 on PRJ1: up to four conflicts a run; uuid4 yields any values
\* of Uuids, in any order
InitIds ==
  \E tape \in [1..MaxTape -> Uuids], status \in DroneStatuses,
     skill \in SkillLevels, certs \in CertLists, place \in {"Pune", "Mumbai"} :
    StartAll(<<Pilot("P1", skill, certs, place, None, None, None,
                     "Available")>>,
             <<Drone("D1", <<>>, "Pune", None, None, None, status, None)>>,
             <<Project("PRJ1", "A", "Pune", First, Last, <<"DGCA">>, <<>>,
                       Some("Advanced"), <<"P1">>, <<"D1">>)>>,
             Sweep, Connected, [tape |-> tape, next |-> 1], NoRows,
             AgentService(None))

SpecIds == InitIds /\ [][NextRepeat]_vars

(***************************************************************************)
(* The provider's own rows: parsing                                        *)
(***************************************************************************)
\* str.strip() on the cell values of the model
strip(s) ==
  CASE s = " Assigned " -> "Assigned"
    [] s = "Pune " -> "Pune"
    [] OTHER -> s

\* day d of March 2024 as a %m/%d/%y string
SlashTable ==
  <<"03/01/24", "03/02/24", "03/03/24", "03/04/24",
    "03/05/24", "03/06/24", "03/07/24", "03/08/24">>

\* the first of the five formats that reads the cell gives the date; an
\* empty cell and one no format reads give None
_parse_date(value) ==
  IF value = "" THEN None
  ELSE IF \E d \in DOMAIN IsoTable : IsoTable[d] = value
  THEN Some(CHOOSE d \in DOMAIN IsoTable : IsoTable[d] = value)
  ELSE IF \E d \in DOMAIN SlashTable : SlashTable[d] = value
  THEN Some(CHOOSE d \in DOMAIN SlashTable : SlashTable[d] = value)
  ELSE None

\* status_map.get(status_str, AVAILABLE) of a pilot and of a drone
PilotStatusOf(status_str) ==
  IF status_str \in {"Available", "Assigned", "On Leave", "Unavailable"}
  THEN status_str ELSE "Available"

DroneStatusOf(status_str) ==
  IF status_str \in {"Available", "Deployed", "Maintenance", "Unavailable"}
  THEN status_str ELSE "Available"

\* the en dash (U+2013) the provider writes for no assignment
EnDash == "--"

\* the assignment cell: a dash or nothing is no assignment
AssignmentOf(cell) ==
  IF strip(cell) \in {EnDash, "-", ""} THEN None ELSE Some(strip(cell))

\* the skill level a pilot's number of skills stands for
SkillLevelOf(skills) ==
  IF Len(skills) >= 3 THEN "Expert"
  ELSE IF Len(skills) >= 2 THEN "Advanced"
  ELSE IF Len(skills) >= 1 THEN "Intermediate"
  ELSE "Beginner"

ParsePilotRowKeepingDates(row) ==
  IF row.pilot_id = "" \/ row.name = "" THEN None
  ELSE LET status == PilotStatusOf(strip(row.status))
       IN Some([id |-> strip(row.pilot_id),
                name |-> strip(row.name),
                skill_level |-> SkillLevelOf(row.skills),
                certifications |-> row.certifications,
                current_location |-> strip(row.location),
                current_assignment |-> AssignmentOf(row.current_assignment),
                assignment_start_date |->
                  IF status = "Assigned" THEN _parse_date(row.available_from)
                  ELSE None,
                assignment_end_date |->
                  IF status = "Assigned" THEN Some(MaxDate) ELSE None,
                status |-> status])

_parse_pilot_row(row) ==
  IF row.pilot_id = "" \/ row.name = "" THEN None
  ELSE LET status == PilotStatusOf(strip(row.status))
       IN Some([id |-> strip(row.pilot_id),
                name |-> strip(row.name),
                skill_level |-> SkillLevelOf(row.skills),
                certifications |-> row.certifications,
                current_location |-> strip(row.location),
                current_assignment |-> AssignmentOf(row.current_assignment),
                assignment_start_date |->
                  IF status = "Assigned" THEN _parse_date(row.available_from)
                  ELSE None,
                assignment_end_date |-> None,
                status |-> status])

\* f"{model.replace(' ', '-')}-{drone_id}" on the models of the rows
SerialNumber(model, drone_id) ==
  CASE model = "M300" /\ drone_id = "D1" -> "M300-D1"
    [] model = "Mavic 3" /\ drone_id = "D2" -> "Mavic-3-D2"
    [] OTHER -> drone_id

\* f"Capabilities: {', '.join(capabilities)}" if capabilities else ""
CapabilityNotes(capabilities) ==
  CASE capabilities = <<>> -> ""
    [] capabilities = <<"Thermal">> -> "Capabilities: Thermal"
    [] OTHER -> "Capabilities: several"

_parse_drone_row(row) ==
  IF row.drone_id = "" \/ row.model = "" THEN None
  ELSE Some([id |-> strip(row.drone_id),
             serial_number |-> SerialNumber(row.model, row.drone_id),
             model |-> strip(row.model),
             capabilities |-> row.capabilities,
             current_location |-> strip(row.location),
             current_assignment |-> AssignmentOf(row.current_assignment),
             assignment_start_date |-> None,
             assignment_end_date |-> None,
             status |-> DroneStatusOf(strip(row.status)),
             next_maintenance_date |-> _parse_date(row.maintenance_due),
             notes |-> CapabilityNotes(row.capabilities)])

\* f"{client} - {location}" on the clients and places of the rows
ProjectName(client, location) ==
  CASE client = "Acme" /\ location = "Pune" -> "Acme - Pune"
    [] client = "Acme" /\ location = "Mumbai" -> "Acme - Mumbai"
    [] OTHER -> client

ParseProjectRowListingClient(row) ==
  IF row.project_id = "" THEN None
  ELSE LET start_date == _parse_date(row.start_date)
           end_date == _parse_date(row.end_date)
       IN Some([id |-> strip(row.project_id),
                name |-> ProjectName(row.client, row.location),
                location |-> strip(row.location),
                start_date |-> IF start_date = None THEN None
                               ELSE Some(isoformat(start_date[1])),
                end_date |-> IF end_date = None THEN None
                             ELSE Some(isoformat(end_date[1])),
                required_certifications |-> row.required_certs,
                required_capabilities |-> row.required_skills,
                required_skill_level |->
                  Some(IF row.priority = "Urgent" THEN "Advanced"
                       ELSE "Intermediate"),
                assigned_pilots |-> <<"P1">>,
                assigned_drones |-> <<"D1">>])

_parse_project_row(row) ==
  IF row.project_id = "" THEN None
  ELSE LET start_date == _parse_date(row.start_date)
           end_date == _parse_date(row.end_date)
       IN Some([id |-> strip(row.project_id),
                name |-> ProjectName(row.client, row.location),
                location |-> strip(row.location),
                start_date |-> IF start_date = None THEN None
                               ELSE Some(isoformat(start_date[1])),
                end_date |-> IF end_date = None THEN None
                             ELSE Some(isoformat(end_date[1])),
                required_certifications |-> row.required_certs,
                required_capabilities |-> row.required_skills,
                required_skill_level |->
                  Some(IF row.priority = "Urgent" THEN "Advanced"
                       ELSE "Intermediate"),
                assigned_pilots |-> <<>>,
                assigned_drones |-> <<>>])

\* for row in records: append what the row parses to, unless None
ParsedPilots(records) ==
  LET kept == SelectSeq(records, LAMBDA row : _parse_pilot_row(row) /= None)
  IN [i \in DOMAIN kept |-> _parse_pilot_row(kept[i])[1]]

ParsedDrones(records) ==
  LET kept == SelectSeq(records, LAMBDA row : _parse_drone_row(row) /= None)
  IN [i \in DOMAIN kept |-> _parse_drone_row(kept[i])[1]]

ParsedProjects(records) ==
  LET kept == SelectSeq(records, LAMBDA row : _parse_project_row(row) /= None)
  IN [i \in DOMAIN kept |-> _parse_project_row(kept[i])[1]]

(***************************************************************************)
(* The provider's own rows: updates                                        *)
(***************************************************************************)
\* how a write to the source may end: done, failed before any cell was
\* written, or (worksheet only) failed after the status cell was written
Failures == {"never", "before", "between"}

\* assignment if assignment else the dash
AssignmentValue(assignment) ==
  IF Truthy(assignment) THEN assignment[1] ELSE EnDash

\* the first row of the worksheet that holds the id, 0 if none does
FindRow(records, key, id) ==
  IF \E i \in DOMAIN records : records[i][key] = id
  THEN CHOOSE i \in DOMAIN records :
         /\ records[i][key] = id
         /\ \A k \in 1..(i - 1) : records[k][key] /= id
  ELSE 0

\* update_cell(row, status_col, status), then update_cell(row,
\* assignment_col, assignment_value); an exception returns False and
\* leaves what was written
UpdateInSheets(records, key, id, status, assignment, fails) ==
  LET row == FindRow(records, key, id)
  IN IF fails = "before" \/ row = 0
     THEN [records |-> records, success |-> FALSE, wrote |-> 0]
     ELSE IF fails = "between"
     THEN [records |-> [records EXCEPT ![row].status = status],
           success |-> FALSE, wrote |-> 1]
     ELSE [records |-> [records EXCEPT
                          ![row].status = status,
                          ![row].current_assignment =
                             AssignmentValue(assignment)],
           success |-> TRUE, wrote |-> 2]

\* every row of the file with the id rewritten, then the file written
\* back; True even when no row has the id
UpdateInCsv(records, key, id, status, assignment, fails) ==
  IF fails /= "never"
  THEN [records |-> records, success |-> FALSE, wrote |-> 0]
  ELSE [records |->
          [i \in DOMAIN records |->
            IF records[i][key] = id
            THEN [records[i] EXCEPT !.status = status,
                                    !.current_assignment =
                                       AssignmentValue(assignment)]
            ELSE records[i]],
        success |-> TRUE,
        wrote |-> IF \E i \in DOMAIN records : records[i][key] = id
                  THEN 2 ELSE 0]

_update_pilot_in_sheets(records, pilot_id, status, assignment, fails) ==
  UpdateInSheets(records, "pilot_id", pilot_id, status, assignment, fails)

_update_pilot_in_csv(records, pilot_id, status, assignment, fails) ==
  UpdateInCsv(records, "pilot_id", pilot_id, status, assignment, fails)

_update_drone_in_sheets(records, drone_id, status, assignment, fails) ==
  UpdateInSheets(records, "drone_id", drone_id, status, assignment, fails)

_update_drone_in_csv(records, drone_id, status, assignment, fails) ==
  UpdateInCsv(records, "drone_id", drone_id, status, assignment, fails)

\* the rows after the update, whether it succeeded and the call it was;
\* start_date and end_date are accepted and passed nowhere
update_pilot_status(rws, use, pilot_id, status, assignment, start_date, end_date, fails) ==
  LET done == IF use
              THEN _update_pilot_in_sheets(rws.pilots, pilot_id, status,
                                           assignment, fails)
              ELSE _update_pilot_in_csv(rws.pilots, pilot_id, status,
                                        assignment, fails)
  IN [cells |-> [rws EXCEPT !.pilots = done.records],
      success |-> done.success,
      call |-> [fn |-> "update_pilot_status", id |-> pilot_id,
                status |-> status, assignment |-> assignment,
                wrote |-> done.wrote]]

update_drone_status(rws, use, drone_id, status, assignment, start_date, end_date, fails) ==
  LET done == IF use
              THEN _update_drone_in_sheets(rws.drones, drone_id, status,
                                           assignment, fails)
              ELSE _update_drone_in_csv(rws.drones, drone_id, status,
                                        assignment, fails)
  IN [cells |-> [rws EXCEPT !.drones = done.records],
      success |-> done.success,
      call |-> [fn |-> "update_drone_status", id |-> drone_id,
                status |-> status, assignment |-> assignment,
                wrote |-> done.wrote]]

flag_maintenance_issue(rws, use, drone_id, issue_notes, fails) ==
  update_drone_status(rws, use, drone_id, "Maintenance", None, None, None,
                      fails)

\* datetime.strptime(d, '%Y-%m-%d').date() if d else None raises
DateRaises(d) == Truthy(d) /\ StrptimeRaises(d)

DateOf(d) == IF Truthy(d) THEN Some(strptime(d)) ELSE None

\* results so far: the rows, the actions appended and the provider calls made
Results(rws, actions, calls) ==
  [cells |-> rws, actions |-> actions, calls |-> calls]

ReleasePilot(r, use, a, fails) ==
  IF ~Truthy(a.old_pilot_id) THEN r
  ELSE LET u == update_pilot_status(r.cells, use, a.old_pilot_id[1],
                                    "Available", None, None, None, fails)
       IN Results(u.cells,
                  Append(r.actions, [template |-> "Released pilot",
                                     id |-> a.old_pilot_id[1],
                                     project |-> None]),
                  Append(r.calls, u.call))

AssignPilot(r, use, a, fails) ==
  IF ~Truthy(a.new_pilot_id) THEN r
  ELSE LET u == update_pilot_status(r.cells, use, a.new_pilot_id[1],
                                    "Assigned", a.project_name,
                                    DateOf(a.start_date), DateOf(a.end_date),
                                    fails)
       IN Results(u.cells,
                  Append(r.actions, [template |-> "Assigned pilot",
                                     id |-> a.new_pilot_id[1],
                                     project |-> a.project_name]),
                  Append(r.calls, u.call))

ReleaseDrone(r, use, a, fails) ==
  IF ~Truthy(a.old_drone_id) THEN r
  ELSE LET u == update_drone_status(r.cells, use, a.old_drone_id[1],
                                    "Available", None, None, None, fails)
       IN Results(u.cells,
                  Append(r.actions, [template |-> "Released drone",
                                     id |-> a.old_drone_id[1],
                                     project |-> None]),
                  Append(r.calls, u.call))

DeployDrone(r, use, a, fails) ==
  IF ~Truthy(a.new_drone_id) THEN r
  ELSE LET u == update_drone_status(r.cells, use, a.new_drone_id[1],
                                    "Deployed", a.project_name,
                                    DateOf(a.start_date), DateOf(a.end_date),
                                    fails)
       IN Results(u.cells,
                  Append(r.actions, [template |-> "Deployed drone",
                                     id |-> a.new_drone_id[1],
                                     project |-> a.project_name]),
                  Append(r.calls, u.call))

\* what the call returns and leaves behind when the exception is caught
Failed(r) ==
  [cells |-> r.cells, calls |-> r.calls,
   result |-> [success |-> FALSE, actions |-> r.actions,
               error |-> Some("strptime"), reason |-> None]]

Succeeded(r, a) ==
  [cells |-> r.cells, calls |-> r.calls,
   result |-> [success |-> TRUE, actions |-> r.actions, error |-> None,
               reason |-> Some(GetOr(a.reason, "Urgent reassignment")[1])]]

ExecuteReassignmentUndoing(rws, use, a, fails) ==
  LET raises == DateRaises(a.start_date) \/ DateRaises(a.end_date)
      r1 == ReleasePilot(Results(rws, <<>>, <<>>), use, a, fails)
      r2 == AssignPilot(r1, use, a, fails)
      r3 == ReleaseDrone(r2, use, a, fails)
      r4 == DeployDrone(r3, use, a, fails)
  IN IF Truthy(a.new_pilot_id) /\ raises
     THEN Failed(Results(rws, r1.actions, r1.calls))
     ELSE IF Truthy(a.new_drone_id) /\ raises
     THEN Failed(Results(rws, r3.actions, r3.calls))
     ELSE Succeeded(r4, a)

\* release the old pilot, assign the new one, release the old drone, deploy
\* the new one, each when its id is given; the dates are parsed before the
\* new pilot and before the new drone is written
_execute_reassignment(rws, use, a, fails) ==
  LET raises == DateRaises(a.start_date) \/ DateRaises(a.end_date)
      r1 == ReleasePilot(Results(rws, <<>>, <<>>), use, a, fails)
      r2 == AssignPilot(r1, use, a, fails)
      r3 == ReleaseDrone(r2, use, a, fails)
      r4 == DeployDrone(r3, use, a, fails)
  IN IF Truthy(a.new_pilot_id) /\ raises THEN Failed(r1)
     ELSE IF Truthy(a.new_drone_id) /\ raises THEN Failed(r3)
     ELSE Succeeded(r4, a)

(***************************************************************************)
(* The provider's own rows: operations                                     *)
(***************************************************************************)
\* what the provider holds for rows rws when it reads the worksheets (use)
\* and when it reads the CSV files
OwnProvider(use, rws) ==
  IF use THEN Connected
  ELSE [use_google_sheets |-> FALSE, missions_sheet |-> FALSE,
        sheet_raises |-> {},
        csv |-> [c \in Collections |->
                  CASE c = "pilots" -> ParsedPilots(rws.pilots)
                    [] c = "drones" -> ParsedDrones(rws.drones)
                    [] c = "projects" -> ParsedProjects(rws.projects)],
        csv_raises_after |-> [c \in Collections |-> None]]

\* the rows are rws from now on, and every read parses them
Stored(rws) ==
  /\ cells' = rws
  /\ pilots' = IF provider.use_google_sheets
               THEN ParsedPilots(rws.pilots) ELSE <<>>
  /\ drones' = IF provider.use_google_sheets
               THEN ParsedDrones(rws.drones) ELSE <<>>
  /\ projects' = IF provider.use_google_sheets
                 THEN ParsedProjects(rws.projects) ELSE <<>>
  /\ provider' = OwnProvider(provider.use_google_sheets, rws)

OwnProject == "Acme - Pune"

\* the rows of the pilot roster: P1 with any status and assignment cell, P2
\* free, and a row without a name
PilotRows(status, assignment) ==
  <<[pilot_id |-> "P1", name |-> "Arjun", skills |-> <<"Mapping", "Survey">>,
     certifications |-> <<"DGCA">>, status |-> status,
     current_assignment |-> assignment, location |-> "Pune ",
     available_from |-> "2024-03-01"],
    [pilot_id |-> "P2", name |-> "Neha", skills |-> <<"Mapping">>,
     certifications |-> <<>>, status |-> "Available",
     current_assignment |-> EnDash, location |-> "Mumbai",
     available_from |-> "03/02/24"],
    [pilot_id |-> "P3", name |-> "", skills |-> <<>>,
     certifications |-> <<>>, status |-> "Available",
     current_assignment |-> "", location |-> "Pune",
     available_from |-> ""]>>

DroneRows(status, assignment) ==
  <<[drone_id |-> "D1", model |-> "M300", capabilities |-> <<"Thermal">>,
     status |-> status, current_assignment |-> assignment,
     location |-> "Pune", maintenance_due |-> "2024-03-02"],
    [drone_id |-> "D2", model |-> "Mavic 3", capabilities |-> <<>>,
     status |-> "Available", current_assignment |-> "-",
     location |-> "Mumbai", maintenance_due |-> "soon"]>>

ProjectRows ==
  <<[project_id |-> "PRJ1", client |-> "Acme", location |-> "Pune",
     required_skills |-> <<"Thermal">>, required_certs |-> <<"DGCA">>,
     start_date |-> "2024-03-01", end_date |-> "03/03/24",
     priority |-> "Urgent"],
    [project_id |-> "PRJ2", client |-> "Acme", location |-> "Mumbai",
     required_skills |-> <<>>, required_certs |-> <<>>,
     start_date |-> "", end_date |-> "tbd", priority |-> "Standard"],
    [project_id |-> "", client |-> "Acme", location |-> "Pune",
     required_skills |-> <<>>, required_certs |-> <<>>,
     start_date |-> "", end_date |-> "", priority |-> "High"]>>

\* the calls a client makes of the provider, the engine and the agent
UpdatePilotCalls ==
  {[op |-> "update_pilot_status", pilot_id |-> u[1], status |-> u[2],
    assignment |-> u[3], start_date |-> u[4], end_date |-> u[5]] :
     u \in {<<"P1", "Assigned", Some(OwnProject), Some(1), Some(MaxDate)>>,
            <<"P1", "On Leave", None, None, None>>,
            <<"P9", "Assigned", Some(OwnProject), Some(1), Some(MaxDate)>>}}

UpdateDroneCalls ==
  {[op |-> "update_drone_status", drone_id |-> u[1], status |-> u[2],
    assignment |-> u[3], start_date |-> u[4], end_date |-> u[5]] :
     u \in {<<"D1", "Deployed", Some(OwnProject), Some(1), Some(MaxDate)>>,
            <<"D1", "Available", None, None, None>>,
            <<"D9", "Deployed", Some(OwnProject), Some(1), Some(MaxDate)>>}}

FlagCalls ==
  {[op |-> "flag_maintenance_issue", drone_id |-> id,
    issue_notes |-> "gimbal"] : id \in {"D1", "D9"}}

ReassignmentCalls ==
  {[op |-> "execute_reassignment", project_name |-> Some(OwnProject),
    old_pilot_id |-> old_pilot_id, new_pilot_id |-> new_pilot_id,
    old_drone_id |-> old_drone_id, new_drone_id |-> new_drone_id,
    start_date |-> w[1], end_date |-> w[2], reason |-> None] :
     old_pilot_id \in {None, Some("P1")}, new_pilot_id \in {None, Some("P2")},
     old_drone_id \in {None, Some("D1")}, new_drone_id \in {None, Some("D2")},
     w \in {<<First, Last>>, <<First, Some("3 March")>>}}

EngineCalls ==
  {Sweep,
   RankPilotCall("PRJ1", <<>>, None, None, None),
   RankDroneCall("PRJ1", <<>>, None, None)}
    \cup {CheckCall(pilot_id, drone_id, 1, MaxDate, <<>>, <<>>,
                    "Intermediate", "Pune") :
            pilot_id \in {Some("P1"), Some("P2")},
            drone_id \in {None, Some("D1")}}

OwnCalls ==
  UpdatePilotCalls \cup UpdateDroneCalls \cup FlagCalls
    \cup ReassignmentCalls \cup EngineCalls

\* the previous call was answered; the client makes another
Call ==
  /\ response /= Pending
  /\ \E call \in OwnCalls : request' = call
  /\ response' = Pending
  /\ overlapCalls' = {}
  /\ UNCHANGED <<pilots, drones, projects, earlier, provider, uuid4, cells,
                 agent>>

UpdatePilotStatus ==
  /\ request.op = "update_pilot_status"
  /\ response = Pending
  /\ \E fails \in Failures :
       LET u == update_pilot_status(cells, provider.use_google_sheets,
                                    request.pilot_id, request.status,
                                    request.assignment, request.start_date,
                                    request.end_date, fails)
       IN /\ Stored(u.cells)
          /\ response' = [status |-> "returned", result |-> u.success,
                          calls |-> <<u.call>>]
  /\ UNCHANGED <<request, overlapCalls, earlier, uuid4, agent>>

UpdateDroneStatus ==
  /\ request.op = "update_drone_status"
  /\ response = Pending
  /\ \E fails \in Failures :
       LET u == update_drone_status(cells, provider.use_google_sheets,
                                    request.drone_id, request.status,
                                    request.assignment, request.start_date,
                                    request.end_date, fails)
       IN /\ Stored(u.cells)
          /\ response' = [status |-> "returned", result |-> u.success,
                          calls |-> <<u.call>>]
  /\ UNCHANGED <<request, overlapCalls, earlier, uuid4, agent>>

FlagMaintenanceIssue ==
  /\ request.op = "flag_maintenance_issue"
  /\ response = Pending
  /\ \E fails \in Failures :
       LET u == flag_maintenance_issue(cells, provider.use_google_sheets,
                                       request.drone_id, request.issue_notes,
                                       fails)
       IN /\ Stored(u.cells)
          /\ response' = [status |-> "returned", result |-> u.success,
                          calls |-> <<u.call>>]
  /\ UNCHANGED <<request, overlapCalls, earlier, uuid4, agent>>

ExecuteReassignment ==
  /\ request.op = "execute_reassignment"
  /\ response = Pending
  /\ \E fails \in Failures :
       LET done == _execute_reassignment(cells, provider.use_google_sheets,
                                         request, fails)
       IN /\ Stored(done.cells)
          /\ response' = [status |-> "returned", result |-> done.result,
                          calls |-> done.calls]
  /\ UNCHANGED <<request, overlapCalls, earlier, uuid4, agent>>

\* the source as it is found: P1 and D1 with any status and assignment cell,
\* read from the worksheets or from the CSV files; the first call is a sweep
InitOwn ==
  \E use \in BOOLEAN,
     pstatus \in {" Assigned ", "Busy"},
     dstatus \in {"Available", "Deployed"},
     passignment \in {EnDash, "Acme - Mumbai"}, dassignment \in {""} :
    LET rws == [pilots |-> PilotRows(pstatus, passignment),
                drones |-> DroneRows(dstatus, dassignment),
                projects |-> ProjectRows]
    IN StartAll(IF use THEN ParsedPilots(rws.pilots) ELSE <<>>,
                IF use THEN ParsedDrones(rws.drones) ELSE <<>>,
                IF use THEN ParsedProjects(rws.projects) ELSE <<>>,
                Sweep, OwnProvider(use, rws),
                [tape |-> <<"3F2A91C0">>, next |-> 1], rws,
                AgentService(None))

NextOwn ==
  \/ Call
  \/ DetectAllConflicts
  \/ CheckAssignmentConflicts
  \/ FindReplacementPilot
  \/ FindReplacementDrone
  \/ UpdatePilotStatus
  \/ UpdateDroneStatus
  \/ FlagMaintenanceIssue
  \/ ExecuteReassignment

SpecOwn == InitOwn /\ [][NextOwn]_vars

(***************************************************************************)
(* The chat agent (agent_service.py)                                       *)
(***************************************************************************)
MaxChats == 3

Providers == {None, Some("gemini"), Some("openai")}

\* the words the fallback responder looks for, as found in message.lower()
Keywords(message) ==
  CASE message = "Show available pilots" -> {"pilot", "available", "show"}
    [] message = "List the drones" -> {"drone", "list"}
    [] message = "Any issues?" -> {"issue"}
    [] message = "Show projects" -> {"project", "show"}
    [] message = "help" -> {"help"}
    [] OTHER -> {}

get_available_pilots(pv, ps) ==
  SelectSeq(get_all_pilots(pv, ps), LAMBDA p : p.status = "Available")

get_available_drones(pv, ds) ==
  SelectSeq(get_all_drones(pv, ds), LAMBDA d : d.status = "Available")

\* a text is the sequence of its pieces; += appends a piece
Listing(title, list) == <<title>> \o [i \in DOMAIN list |-> list[i].id]

Reply(text) == [raised |-> FALSE, text |-> text, drawn |-> 0]

\* c.type on a Conflict, which has no such field: AttributeError on the
\* first conflict of a non-empty list
Unanswered(drawn) == [raised |-> TRUE, text |-> <<>>, drawn |-> drawn]

_generate_fallback_response(message, pv, ps, ds, prjs) ==
  LET words == Keywords(message)
      listing == words \cap {"available", "list", "show"} /= {}
  IN IF "pilot" \in words /\ listing
     THEN LET available == get_available_pilots(pv, ps)
          IN IF available /= <<>>
             THEN Reply(Listing("**Available Pilots:**", available))
             ELSE Reply(<<"No pilots are currently available.">>)
     ELSE IF "drone" \in words /\ listing
     THEN LET available == get_available_drones(pv, ds)
          IN IF available /= <<>>
             THEN Reply(Listing("**Available Drones:**", available))
             ELSE Reply(<<"No drones are currently available.">>)
     ELSE IF words \cap {"conflict", "issue", "problem"} /= {}
     THEN LET out == detect_all_conflicts(get_all_pilots(pv, ps),
                                          get_all_drones(pv, ds),
                                          get_demo_projects(pv, prjs))
          IN IF out.raised THEN Unanswered(0)
             ELSE IF out.conflicts /= <<>>
             THEN Unanswered(Len(out.conflicts))
             ELSE Reply(<<"No conflicts detected. All systems operational!">>)
     ELSE IF "project" \in words
     THEN Reply(Listing("**Current Projects:**",
                        get_demo_projects(pv, prjs)))
     ELSE IF "help" \in words
     THEN Reply(<<"**I can help you with:**">>)
     ELSE Reply(<<"I'm running in demo mode with limited capabilities.">>)

\* str(e) of the errors an AI call raises in the model
ErrorTexts ==
  {"429 Too Many Requests", "503 RESOURCE_EXHAUSTED", "Quota exceeded",
   "Failed to generate content", "Connection reset by peer"}

\* error_str.lower()
LowerOfError(error_str) ==
  CASE error_str = "429 Too Many Requests" -> "429 too many requests"
    [] error_str = "503 RESOURCE_EXHAUSTED" -> "503 resource_exhausted"
    [] error_str = "Quota exceeded" -> "quota exceeded"
    [] error_str = "Failed to generate content" -> "failed to generate content"
    [] error_str = "Connection reset by peer" -> "connection reset by peer"

\* needle in s, for the four needles of chat and the texts above
Occurs(needle, s) ==
  <<needle, s>> \in
    {<<"429", "429 Too Many Requests">>,
     <<"429", "429 too many requests">>,
     <<"RESOURCE_EXHAUSTED", "503 RESOURCE_EXHAUSTED">>,
     <<"quota", "quota exceeded">>,
     <<"rate", "failed to generate content">>}

QuotaErrorNever(error_str) == FALSE

\* chat l.701: the errors after which the service falls back to demo mode
QuotaError(error_str) ==
  \/ Occurs("429", error_str)
  \/ Occurs("RESOURCE_EXHAUSTED", error_str)
  \/ Occurs("quota", LowerOfError(error_str))
  \/ Occurs("rate", LowerOfError(error_str))

\* what the AI provider does during one call of chat: the function it asks
\* for, if any, and then either a text or an error
PilotOnLeave ==
  [name |-> "update_pilot_status", pilot_id |-> "P2", status |-> "On Leave"]

AiOutcomes ==
  {[tool |-> o[1], error |-> o[2]] :
     o \in {<<None, None>>,
            <<Some(PilotOnLeave), None>>,
            <<Some(PilotOnLeave), Some("429 Too Many Requests")>>,
            <<None, Some("Failed to generate content")>>,
            <<None, Some("Connection reset by peer")>>}}

\* _execute_function for the function of the model; fails as in the writers
ExecuteFunction(tool, use, rws) ==
  update_pilot_status(rws, use, tool.pilot_id, tool.status, None, None, None,
                      "never")

Converse(fn, ai, use, rws) ==
  LET ran == IF ai.tool = None THEN [cells |-> rws, function_calls |-> <<>>]
             ELSE LET u == ExecuteFunction(ai.tool[1], use, rws)
                  IN [cells |-> u.cells,
                      function_calls |->
                        <<[name |-> ai.tool[1].name, result |-> u.success]>>]
  IN [raised |-> ai.error /= None,
      error_str |-> ai.error,
      text |-> IF ai.error = None THEN <<"reply of the model">> ELSE <<>>,
      function_calls |-> IF ai.error = None THEN ran.function_calls ELSE <<>>,
      cells |-> ran.cells,
      call |-> [fn |-> fn, error |-> ai.error]]

_chat_with_gemini(ai, use, rws) == Converse("_chat_with_gemini", ai, use, rws)

_chat_with_openai(ai, use, rws) == Converse("_chat_with_openai", ai, use, rws)

ChatMessage(role, content) == [role |-> role, content |-> content]

create_session(sessions, session_id) == (session_id :> <<>>) @@ sessions

AnswerNothing(sessions, session_id, text) == sessions

\* self.sessions[session_id].append(assistant_message)
Answer(sessions, session_id, text) ==
  [sessions EXCEPT
     ![session_id] = Append(@, ChatMessage("assistant", text))]

Disabled == "API quota exceeded. Using demo mode until quota resets."

\* chat: the service after the call, what is returned, and which calls of
\* the AI provider were made; talk is what the AI conversation does when it
\* is held, fb what the fallback responder answers when it is asked
ChatDone(svc, sessions, drawn, raised, response_text, session_id, function_calls, path, calls) ==
  [agent |-> [svc EXCEPT !.sessions = sessions],
   drawn |-> drawn, raised |-> raised,
   result |-> [response_text |-> response_text, session_id |-> session_id,
               function_calls |-> function_calls],
   path |-> path, calls |-> calls]

\* `not self.ai_provider or self.ai_disabled_reason`
Fallback(svc) == svc.ai_provider = None \/ svc.ai_disabled_reason /= None

chat(svc, message, session_id, fresh, talk, fb) ==
  LET sid == IF ~Truthy(session_id) THEN fresh ELSE session_id[1]
      opened == IF ~Truthy(session_id)
                THEN create_session(svc.sessions, fresh)
                ELSE IF sid \notin DOMAIN svc.sessions
                THEN create_session(svc.sessions, sid)
                ELSE svc.sessions
      asked == [opened EXCEPT
                  ![sid] = Append(@, ChatMessage("user", <<message>>))]
  IN IF Fallback(svc)
     THEN LET response_text ==
                IF svc.ai_disabled_reason /= None
                THEN Append(fb.text, svc.ai_disabled_reason[1])
                ELSE fb.text
          IN IF fb.raised
             THEN ChatDone(svc, asked, fb.drawn, TRUE, <<>>, sid, <<>>,
                           "fallback", <<>>)
             ELSE ChatDone(svc, Answer(asked, sid, response_text), 0, FALSE,
                           response_text, sid, <<>>, "fallback", <<>>)
     ELSE IF ~talk.raised
     THEN ChatDone(svc, Answer(asked, sid, talk.text), 0, FALSE, talk.text,
                   sid, talk.function_calls, "ai", <<talk.call>>)
     ELSE IF QuotaError(talk.error_str[1])
     THEN LET off == [svc EXCEPT !.ai_disabled_reason = Some(Disabled)]
              response_text ==
                Append(fb.text, "AI quota temporarily exceeded.")
          IN IF fb.raised
             THEN ChatDone(off, asked, fb.drawn, TRUE, <<>>, sid, <<>>,
                           "quota", <<talk.call>>)
             ELSE ChatDone(off, Answer(asked, sid, response_text), 0, FALSE,
                           response_text, sid, <<>>, "quota", <<talk.call>>)
     ELSE ChatDone(svc, asked, 0, FALSE,
                   <<"I encountered an error processing your request.",
                     talk.error_str[1]>>,
                   sid, <<>>, "error", <<talk.call>>)

\* str(uuid.uuid4()), 122 random bits: create_session is given an id that no
\* session of the instance has
SessionUuids == {"5d1c6f0e-session"}

ClientIds == {"web-1"}

ChatTexts == {"Show available pilots", "Any issues?"}

RECURSIVE Asked(_, _)
Asked(sessions, ids) ==
  IF ids = {} THEN 0
  ELSE LET id == CHOOSE id \in ids : TRUE
       IN Len(SelectSeq(sessions[id], LAMBDA m : m.role = "user"))
            + Asked(sessions, ids \ {id})

ChatCalls(svc) ==
  {[op |-> "chat", message |-> message, session_id |-> session_id] :
     message \in ChatTexts,
     session_id \in
       (IF SessionUuids \subseteq DOMAIN svc.sessions THEN {}
        ELSE {None})
         \cup {Some(id) : id \in ClientIds \cup DOMAIN svc.sessions}}

ResetCall == [op |-> "reset_agent_service"]

\* the previous call was answered; the client sends a message or resets
Ask ==
  /\ response /= Pending
  /\ \/ /\ Asked(agent.sessions, DOMAIN agent.sessions) < MaxChats
        /\ \E call \in ChatCalls(agent) : request' = call
     \/ request' = ResetCall
  /\ response' = Pending
  /\ UNCHANGED <<pilots, drones, projects, overlapCalls, earlier, provider,
                 uuid4, cells, agent>>

\* the AI conversation, when it is held, comes first and its function calls
\* write the rows; the fallback responder then reads what is stored
Chat ==
  /\ request.op = "chat"
  /\ response = Pending
  /\ \E ai \in AiOutcomes,
        fresh \in (IF Truthy(request.session_id) THEN {""}
                   ELSE SessionUuids \ DOMAIN agent.sessions) :
       \E talk \in {IF agent.ai_provider = Some("gemini")
                    THEN _chat_with_gemini(ai, provider.use_google_sheets,
                                           cells)
                    ELSE _chat_with_openai(ai, provider.use_google_sheets,
                                           cells)} :
         /\ IF Fallback(agent) \/ talk.cells = cells
            THEN UNCHANGED <<pilots, drones, projects, provider, cells>>
            ELSE Stored(talk.cells)
         /\ \E done \in {chat(agent, request.message, request.session_id,
                              fresh, talk,
                              _generate_fallback_response(
                                request.message, provider', pilots',
                                drones', projects'))} :
              /\ agent' = done.agent
              /\ uuid4' = Drawn(uuid4, done.drawn)
              /\ response' = [status |-> IF done.raised THEN "raised"
                                         ELSE "returned",
                              result |-> done.result, path |-> done.path,
                              calls |-> done.calls]
  /\ UNCHANGED <<request, overlapCalls, earlier>>

\* reset_agent_service: a new instance, built from the keys now configured
ResetAgentService ==
  /\ request.op = "reset_agent_service"
  /\ response = Pending
  /\ \E ai_provider \in Providers :
       /\ agent' = AgentService(ai_provider)
       /\ response' = [status |-> "returned",
                       result |-> [ai_provider |-> ai_provider,
                                   ai_disabled_reason |-> None],
                       path |-> "reset", calls |-> <<>>]
  /\ UNCHANGED <<pilots, drones, projects, request, overlapCalls, earlier,
                 provider, uuid4, cells>>

InitChat ==
  \E use \in BOOLEAN, ai_provider \in Providers,
     session_id \in {None, Some("")} :
    LET rws == [pilots |-> PilotRows("Available", EnDash),
                drones |-> DroneRows("Available", ""),
                projects |-> ProjectRows]
    IN StartAll(IF use THEN ParsedPilots(rws.pilots) ELSE <<>>,
                IF use THEN ParsedDrones(rws.drones) ELSE <<>>,
                IF use THEN ParsedProjects(rws.projects) ELSE <<>>,
                [op |-> "chat", message |-> "Show available pilots",
                 session_id |-> session_id],
                OwnProvider(use, rws),
                [tape |-> <<"3F2A91C0">>, next |-> 1], rws,
                AgentService(ai_provider))

NextChat ==
  \/ Ask
  \/ Chat
  \/ ResetAgentService

SpecChat == InitChat /\ [][NextChat]_vars

(***************************************************************************)
(* Properties                                                              *)
(***************************************************************************)
SweepReturned ==
  request.op = "detect_all_conflicts" /\ response.status = "returned"

CheckReturned ==
  request.op = "check_assignment_conflicts" /\ response.status = "returned"

RankReturned ==
  request.op = "find_replacement_pilot" /\ response.status = "returned"

\* the day an ISO date string of the snapshot denotes
Day(s) == CHOOSE d \in DOMAIN IsoTable : isoformat(d) = s[1]

Elems(list) == {list[i] : i \in DOMAIN list}

\* how many returned conflicts have this type and these references
Num(type, pilot_ref, drone_ref, project_ref) ==
  Cardinality({i \in DOMAIN response.conflicts :
    LET c == response.conflicts[i]
    IN /\ c.conflict_type = type
       /\ c.affected_pilot_id = pilot_ref
       /\ c.affected_drone_id = drone_ref
       /\ c.affected_project_id = project_ref})

NumSev(type, sev, pilot_ref, drone_ref, project_ref) ==
  Cardinality({i \in DOMAIN response.conflicts :
    LET c == response.conflicts[i]
    IN /\ c.conflict_type = type
       /\ c.severity = sev
       /\ c.affected_pilot_id = pilot_ref
       /\ c.affected_drone_id = drone_ref
       /\ c.affected_project_id = project_ref})

NumOfType(type) ==
  Cardinality({i \in DOMAIN response.conflicts :
    response.conflicts[i].conflict_type = type})

\* a pilot or drone r is double-booked against project j, as section 4.2 has it
Booked(r, listed, j) ==
  /\ r.current_assignment /= None
  /\ r.current_assignment /= Some("")
  /\ r.assignment_start_date /= None
  /\ r.assignment_end_date /= None
  /\ r.current_assignment /= Some(j.name)
  /\ r.id \in Elems(listed)
  /\ j.start_date /= None
  /\ j.end_date /= None
  /\ r.assignment_start_date[1] <= Day(j.end_date)
  /\ r.assignment_end_date[1] >= Day(j.start_date)

\* C1: a returned sweep holds exactly one Critical double-booking conflict for
\* each (pilot, project) and each (drone, project) pair that is double-booked
\* (assignment name and both dates recorded, project named otherwise, resource
\* listed on the project, closed windows intersecting), naming the resource
\* and the project, and no double-booking conflict for any other pair.
C1_DoubleBookingExact ==
  SweepReturned =>
    /\ \A i \in DOMAIN pilots, j \in DOMAIN projects :
         /\ NumSev(DOUBLE_BOOKING_PILOT, "Critical", Some(pilots[i].id), None,
                   Some(projects[j].id))
              = IF Booked(pilots[i], projects[j].assigned_pilots, projects[j])
                THEN 1 ELSE 0
         /\ Num(DOUBLE_BOOKING_PILOT, Some(pilots[i].id), None,
                Some(projects[j].id))
              = NumSev(DOUBLE_BOOKING_PILOT, "Critical", Some(pilots[i].id),
                       None, Some(projects[j].id))
    /\ \A i \in DOMAIN drones, j \in DOMAIN projects :
         /\ NumSev(DOUBLE_BOOKING_DRONE, "Critical", None, Some(drones[i].id),
                   Some(projects[j].id))
              = IF Booked(drones[i], projects[j].assigned_drones, projects[j])
                THEN 1 ELSE 0
         /\ Num(DOUBLE_BOOKING_DRONE, None, Some(drones[i].id),
                Some(projects[j].id))
              = NumSev(DOUBLE_BOOKING_DRONE, "Critical", None,
                       Some(drones[i].id), Some(projects[j].id))
    /\ NumOfType(DOUBLE_BOOKING_PILOT)
         = Cardinality({<<i, j>> \in (DOMAIN pilots) \X (DOMAIN projects) :
             Booked(pilots[i], projects[j].assigned_pilots, projects[j])})
    /\ NumOfType(DOUBLE_BOOKING_DRONE)
         = Cardinality({<<i, j>> \in (DOMAIN drones) \X (DOMAIN projects) :
             Booked(drones[i], projects[j].assigned_drones, projects[j])})
    /\ \A k \in DOMAIN response.conflicts :
         LET c == response.conflicts[k]
         IN c.conflict_type \in {DOUBLE_BOOKING_PILOT, DOUBLE_BOOKING_DRONE} =>
              \E j \in DOMAIN projects :
                /\ c.affected_project_id = Some(projects[j].id)
                /\ c.affected_project_name = Some(projects[j].name)

\* a sweep that found a pilot and a drone double-booked
C1_Witness ==
  /\ SweepReturned
  /\ NumOfType(DOUBLE_BOOKING_PILOT) >= 1
  /\ NumOfType(DOUBLE_BOOKING_DRONE) >= 1

\* C2: no returned double-booking conflict pairs a pilot with a project whose
\* name is the pilot's current_assignment.
C2_NoSelfConflict ==
  (request.op = "detect_all_conflicts" /\ response /= Pending) =>
    \A k \in DOMAIN response.conflicts, i \in DOMAIN pilots :
      LET c == response.conflicts[k]
      IN (/\ c.conflict_type = DOUBLE_BOOKING_PILOT
          /\ c.affected_pilot_id = Some(pilots[i].id))
           => pilots[i].current_assignment /= c.affected_project_name

\* a pilot on project A, listed on A with intersecting windows, double-booked
\* against B only
C2_Witness ==
  /\ SweepReturned
  /\ \E i \in DOMAIN pilots, j, m \in DOMAIN projects :
       /\ pilots[i].current_assignment = Some(projects[j].name)
       /\ pilots[i].id \in Elems(projects[j].assigned_pilots)
       /\ pilots[i].assignment_start_date /= None
       /\ pilots[i].assignment_end_date /= None
       /\ projects[j].start_date /= None
       /\ projects[j].end_date /= None
       /\ pilots[i].assignment_start_date[1] <= Day(projects[j].end_date)
       /\ pilots[i].assignment_end_date[1] >= Day(projects[j].start_date)
       /\ Booked(pilots[i], projects[m].assigned_pilots, projects[m])
       /\ NumOfType(DOUBLE_BOOKING_PILOT) = 1

\* C3: every evaluation of the overlap test on two well-ordered intervals
\* answers true exactly when start1 <= end2 and end1 >= start2; intervals
\* that share only a boundary date overlap.
C3_OverlapClosedIntervals ==
  \A c \in overlapCalls :
    (c.start1 <= c.end1 /\ c.start2 <= c.end2) =>
      /\ c.result = (c.start1 <= c.end2 /\ c.end1 >= c.start2)
      /\ (c.end1 = c.start2 => c.result)

\* the test was evaluated on intervals touching at one date, and on disjoint ones
C3_Witness ==
  /\ \E c \in overlapCalls :
       /\ c.start1 < c.end1 /\ c.end1 = c.start2 /\ c.start2 < c.end2
       /\ c.result

\* the position of a conflict type's rule in section 4.2
RuleNo(type) ==
  CASE type = DOUBLE_BOOKING_PILOT -> 1
    [] type = DOUBLE_BOOKING_DRONE -> 2
    [] type = CERTIFICATION_MISMATCH -> 3
    [] type = SKILL_MISMATCH -> 4
    [] type = LOCATION_MISMATCH -> 5
    [] type = DRONE_MAINTENANCE -> 6
    [] type = CAPABILITY_MISMATCH -> 7

\* C4: in the list a sweep returns, conflicts appear in rule order: pilot
\* double-booking, drone double-booking, certification, skill, location,
\* maintenance, capability; none of a later rule precedes one of an earlier.
C4_RuleOrder ==
  SweepReturned =>
    \A a, b \in DOMAIN response.conflicts :
      a < b => RuleNo(response.conflicts[a].conflict_type)
                 <= RuleNo(response.conflicts[b].conflict_type)

\* a sweep in which all seven rules fired
C4_Witness ==
  /\ SweepReturned
  /\ \A n \in 1..7 : \E k \in DOMAIN response.conflicts :
       RuleNo(response.conflicts[k].conflict_type) = n

\* the drones a project lists that the snapshot has
ListedDrones(j) == {d \in Elems(drones) : d.id \in Elems(j.assigned_drones)}
ListedPilots(j) == {p \in Elems(pilots) : p.id \in Elems(j.assigned_pilots)}

DueWithin(d, j) ==
  /\ d.next_maintenance_date /= None
  /\ j.start_date /= None
  /\ j.end_date /= None
  /\ Day(j.start_date) <= d.next_maintenance_date[1]
  /\ d.next_maintenance_date[1] <= Day(j.end_date)

\* C5: for each project and listed drone the returned sweep holds one Critical
\* maintenance conflict iff the drone's status is Maintenance and, separately,
\* one Medium maintenance conflict iff its next-maintenance date lies in the
\* project's window (bounds included); there are no other maintenance
\* conflicts.
C5_MaintenanceRule ==
  SweepReturned =>
    /\ \A j \in Elems(projects) : \A d \in ListedDrones(j) :
         /\ NumSev(DRONE_MAINTENANCE, "Critical", None, Some(d.id), Some(j.id))
              = IF d.status = "Maintenance" THEN 1 ELSE 0
         /\ NumSev(DRONE_MAINTENANCE, "Medium", None, Some(d.id), Some(j.id))
              = IF DueWithin(d, j) THEN 1 ELSE 0
    /\ NumOfType(DRONE_MAINTENANCE)
         = Cardinality({<<j, d>> \in Elems(projects) \X Elems(drones) :
             d \in ListedDrones(j) /\ d.status = "Maintenance"})
           + Cardinality({<<j, d>> \in Elems(projects) \X Elems(drones) :
               d \in ListedDrones(j) /\ DueWithin(d, j)})

\* a drone in Maintenance whose next maintenance falls in its project's window:
\* both conflicts are returned
C5_Witness ==
  /\ SweepReturned
  /\ \E j \in Elems(projects) : \E d \in ListedDrones(j) :
       /\ d.status = "Maintenance"
       /\ DueWithin(d, j)
       /\ NumSev(DRONE_MAINTENANCE, "Critical", None, Some(d.id), Some(j.id)) = 1
       /\ NumSev(DRONE_MAINTENANCE, "Medium", None, Some(d.id), Some(j.id)) = 1

\* the required items a record does not have
Lacking(required, have) == Elems(required) \ Elems(have)

\* the conflicts of a type for a pilot or drone and a project
Found(type, pilot_ref, drone_ref, project_ref) ==
  {c \in Elems(response.conflicts) :
     /\ c.conflict_type = type
     /\ c.affected_pilot_id = pilot_ref
     /\ c.affected_drone_id = drone_ref
     /\ c.affected_project_id = project_ref}

\* C6: for each project and listed pilot (drone) the returned sweep holds one
\* High certification (capability) conflict iff the project requires an item
\* the pilot (drone) lacks, and that conflict lists exactly the lacking items;
\* a project requiring nothing has no such conflict.
C6_CertificationCapabilityRule ==
  SweepReturned =>
    /\ \A j \in Elems(projects) : \A p \in ListedPilots(j) :
         LET lacking == Lacking(j.required_certifications, p.certifications)
         IN /\ Num(CERTIFICATION_MISMATCH, Some(p.id), None, Some(j.id))
                 = IF lacking /= {} THEN 1 ELSE 0
            /\ \A c \in Found(CERTIFICATION_MISMATCH, Some(p.id), None,
                              Some(j.id)) :
                 /\ c.severity = "High"
                 /\ Elems(c.description.missing) = lacking
                 /\ Len(c.description.missing) = Cardinality(lacking)
    /\ \A j \in Elems(projects) : \A d \in ListedDrones(j) :
         LET lacking == Lacking(j.required_capabilities, d.capabilities)
         IN /\ Num(CAPABILITY_MISMATCH, None, Some(d.id), Some(j.id))
                 = IF lacking /= {} THEN 1 ELSE 0
            /\ \A c \in Found(CAPABILITY_MISMATCH, None, Some(d.id),
                              Some(j.id)) :
                 /\ c.severity = "High"
                 /\ Elems(c.description.missing) = lacking
                 /\ Len(c.description.missing) = Cardinality(lacking)
    /\ NumOfType(CERTIFICATION_MISMATCH)
         = Cardinality({<<j, p>> \in Elems(projects) \X Elems(pilots) :
             /\ p \in ListedPilots(j)
             /\ Lacking(j.required_certifications, p.certifications) /= {}})
    /\ NumOfType(CAPABILITY_MISMATCH)
         = Cardinality({<<j, d>> \in Elems(projects) \X Elems(drones) :
             /\ d \in ListedDrones(j)
             /\ Lacking(j.required_capabilities, d.capabilities) /= {}})

\* a pilot and a drone each holding one of two required items: the conflicts
\* list the other one only
C6_Witness ==
  /\ SweepReturned
  /\ \E j \in Elems(projects) : \E p \in ListedPilots(j), d \in ListedDrones(j) :
       /\ Cardinality(Lacking(j.required_certifications, p.certifications)) = 1
       /\ Len(j.required_certifications) = 2
       /\ Cardinality(Lacking(j.required_capabilities, d.capabilities)) = 1
       /\ Len(j.required_capabilities) = 2
       /\ Num(CERTIFICATION_MISMATCH, Some(p.id), None, Some(j.id)) = 1
       /\ Num(CAPABILITY_MISMATCH, None, Some(d.id), Some(j.id)) = 1

\* rank of a skill level; a string that is no level ranks with Beginner
Rank(level) ==
  CASE level = "Intermediate" -> 1
    [] level = "Advanced" -> 2
    [] level = "Expert" -> 3
    [] OTHER -> 0

\* C7: for each project with a required skill level and each listed pilot the
\* returned sweep holds one Medium skill conflict iff the pilot's rank is
\* strictly below the required rank; there are no other skill conflicts.
C7_SkillRule ==
  SweepReturned =>
    /\ \A j \in Elems(projects) : \A p \in ListedPilots(j) :
         /\ NumSev(SKILL_MISMATCH, "Medium", Some(p.id), None, Some(j.id))
              = IF /\ j.required_skill_level /= None
                   /\ j.required_skill_level /= Some("")
                   /\ Rank(p.skill_level) < Rank(j.required_skill_level[1])
                THEN 1 ELSE 0
         /\ Num(SKILL_MISMATCH, Some(p.id), None, Some(j.id))
              = NumSev(SKILL_MISMATCH, "Medium", Some(p.id), None, Some(j.id))
    /\ NumOfType(SKILL_MISMATCH)
         = Cardinality({<<j, p>> \in Elems(projects) \X Elems(pilots) :
             /\ p \in ListedPilots(j)
             /\ j.required_skill_level /= None
             /\ j.required_skill_level /= Some("")
             /\ Rank(p.skill_level) < Rank(j.required_skill_level[1])})

\* one project with a pilot below its level and a pilot at its level: only
\* the first has a skill conflict
C7_Witness ==
  /\ SweepReturned
  /\ \E j \in Elems(projects) : \E p, q \in ListedPilots(j) :
       /\ j.required_skill_level = Some("Advanced")
       /\ p.skill_level = "Beginner"
       /\ q.skill_level = "Advanced"
       /\ Num(SKILL_MISMATCH, Some(p.id), None, Some(j.id)) = 1
       /\ Num(SKILL_MISMATCH, Some(q.id), None, Some(j.id)) = 0

\* a place name without regard to letter case
CaseFold(place) ==
  CASE place \in {"Pune", "pune", "PUNE"} -> "PUNE"
    [] place \in {"Mumbai", "mumbai", "MUMBAI"} -> "MUMBAI"
    [] OTHER -> place

\* two location strings differ, as written or without regard to letter case
Differ(a, b, as_written) ==
  IF as_written THEN a /= b ELSE CaseFold(a) /= CaseFold(b)

\* what rule 5 is to return for the snapshot
LocationRule(as_written) ==
  /\ \A j \in Elems(projects) :
       /\ \A p \in ListedPilots(j) :
            NumSev(LOCATION_MISMATCH, "Medium", Some(p.id), None, Some(j.id))
              = IF Differ(p.current_location, j.location, as_written) THEN 1 ELSE 0
       /\ \A d \in ListedDrones(j) :
            NumSev(LOCATION_MISMATCH, "Medium", None, Some(d.id), Some(j.id))
              = IF Differ(d.current_location, j.location, as_written) THEN 1 ELSE 0
       /\ \A p \in ListedPilots(j), d \in ListedDrones(j) :
            NumSev(LOCATION_MISMATCH, "High", Some(p.id), Some(d.id),
                   Some(j.id))
              = IF Differ(p.current_location, d.current_location, as_written)
                THEN 1 ELSE 0
  /\ NumOfType(LOCATION_MISMATCH)
       = Cardinality({<<j, p>> \in Elems(projects) \X Elems(pilots) :
           p \in ListedPilots(j) /\ Differ(p.current_location, j.location, as_written)})
         + Cardinality({<<j, d>> \in Elems(projects) \X Elems(drones) :
             d \in ListedDrones(j) /\ Differ(d.current_location, j.location, as_written)})
         + Cardinality({<<j, p, d>> \in
               Elems(projects) \X Elems(pilots) \X Elems(drones) :
             /\ p \in ListedPilots(j)
             /\ d \in ListedDrones(j)
             /\ Differ(p.current_location, d.current_location, as_written)})

\* C8 as stated: one Medium conflict per listed pilot and per listed drone
\* whose location string differs from the project's, one High conflict per
\* listed pilot and drone whose location strings differ, and no other
\* location conflict.
C8_LocationRuleAsStated ==
  SweepReturned => LocationRule(TRUE)

\* C8 (amended): the same, with locations compared without regard to letter
\* case: "Pune" and "pune" do not differ.
C8_LocationRuleIgnoringCase ==
  SweepReturned => LocationRule(FALSE)

\* two pilots and two drones on one project, a pilot and a drone away from
\* the project and from each other, and a drone whose location is the
\* project's in other letters
C8_Witness ==
  /\ SweepReturned
  /\ \E j \in Elems(projects) :
       /\ Cardinality(ListedPilots(j)) = 2
       /\ Cardinality(ListedDrones(j)) = 2
       /\ \E p \in ListedPilots(j), d, e \in ListedDrones(j) :
            /\ CaseFold(p.current_location) /= CaseFold(j.location)
            /\ CaseFold(p.current_location) /= CaseFold(d.current_location)
            /\ e.current_location /= j.location
            /\ CaseFold(e.current_location) = CaseFold(j.location)
            /\ NumSev(LOCATION_MISMATCH, "High", Some(p.id), Some(d.id),
                      Some(j.id)) = 1
            /\ Num(LOCATION_MISMATCH, None, Some(e.id), Some(j.id)) = 0

\* how many conflicts of the check have this type, severity and description
NumChecked(type, sev, template) ==
  Cardinality({i \in DOMAIN response.conflicts :
    LET c == response.conflicts[i]
    IN /\ c.conflict_type = type
       /\ c.severity = sev
       /\ c.description.template = template
       /\ c.affected_project_id = Some(request.project_id)})

Bit(cond) == IF cond THEN 1 ELSE 0

CheckedPilot ==
  IF request.pilot_id = None
  THEN {}
  ELSE {p \in Elems(pilots) : p.id = request.pilot_id[1]}

CheckedDrone ==
  IF request.drone_id = None
  THEN {}
  ELSE {d \in Elems(drones) : d.id = request.drone_id[1]}

WindowsMeet(r) ==
  /\ r.assignment_start_date /= None
  /\ r.assignment_end_date /= None
  /\ r.assignment_start_date[1] <= request.end_date
  /\ r.assignment_end_date[1] >= request.start_date

\* a record at place is not at the location of the call: the strings differ
\* as written, or a location is given and differs without regard to case
Elsewhere(place, as_written) ==
  IF as_written
  THEN place /= request.location
  ELSE /\ request.location /= ""
       /\ CaseFold(place) /= CaseFold(request.location)

\* what the pre-assignment check is to return
CheckRule(as_written) ==
  /\ \A p \in CheckedPilot :
       /\ NumChecked(DOUBLE_BOOKING_PILOT, "Critical", "pilot is on leave")
            = Bit(p.status = "On Leave")
       /\ NumChecked(DOUBLE_BOOKING_PILOT, "Critical", "pilot is already assigned")
            = Bit(WindowsMeet(p))
       /\ NumChecked(CERTIFICATION_MISMATCH, "High", "pilot lacks certifications")
            = Bit(Lacking(request.required_certs, p.certifications) /= {})
       /\ NumChecked(SKILL_MISMATCH, "Medium", "pilot skill below required")
            = Bit(Rank(p.skill_level) < Rank(request.required_skill))
       /\ NumChecked(LOCATION_MISMATCH, "Medium", "pilot is elsewhere")
            = Bit(Elsewhere(p.current_location, as_written))
  /\ \A d \in CheckedDrone :
       /\ NumChecked(DRONE_MAINTENANCE, "Critical", "drone is in maintenance")
            = Bit(d.status = "Maintenance")
       /\ NumChecked(DOUBLE_BOOKING_DRONE, "Critical", "drone is already assigned")
            = Bit(WindowsMeet(d))
       /\ NumChecked(CAPABILITY_MISMATCH, "High", "drone lacks capabilities")
            = Bit(Lacking(request.required_caps, d.capabilities) /= {})
       /\ NumChecked(LOCATION_MISMATCH, "Medium", "drone is elsewhere")
            = Bit(Elsewhere(d.current_location, as_written))
  /\ Len(response.conflicts)
       = Cardinality({p \in CheckedPilot : p.status = "On Leave"})
         + Cardinality({p \in CheckedPilot : WindowsMeet(p)})
         + Cardinality({p \in CheckedPilot :
             Lacking(request.required_certs, p.certifications) /= {}})
         + Cardinality({p \in CheckedPilot :
             Rank(p.skill_level) < Rank(request.required_skill)})
         + Cardinality({p \in CheckedPilot : Elsewhere(p.current_location, as_written)})
         + Cardinality({d \in CheckedDrone : d.status = "Maintenance"})
         + Cardinality({d \in CheckedDrone : WindowsMeet(d)})
         + Cardinality({d \in CheckedDrone :
             Lacking(request.required_caps, d.capabilities) /= {}})
         + Cardinality({d \in CheckedDrone : Elsewhere(d.current_location, as_written)})
  /\ Len(response.conflicts) <= 9

\* C9 as stated: the check returns one conflict for each condition that
\* holds of the pilot found (On Leave, windows meet, certification lacking,
\* rank below required, location string differs from the given one) and of
\* the drone found (Maintenance, windows meet, capability lacking, location
\* string differs), and none for a condition that does not hold: 0 to 9.
C9_CheckAsStated ==
  CheckReturned => CheckRule(TRUE)

\* C9 (amended): the same, with the location conflicts returned only when a
\* non-empty location is given and it differs from the record's without
\* regard to letter case.
C9_CheckLocationGivenIgnoringCase ==
  CheckReturned => CheckRule(FALSE)

\* a call in which all nine conditions hold: nine conflicts
C9_Witness ==
  /\ CheckReturned
  /\ Len(response.conflicts) = 9
  /\ CheckedPilot /= {}
  /\ CheckedDrone /= {}

\* C10: every candidate's score is 30 if no required certification is
\* lacking, plus 25 if the pilot's rank is at least the required rank, plus
\* 25 if a preferred location is given and is the pilot's without regard to
\* letter case, plus 5 times the pilot's rank counted from 0; a location
\* issue is listed exactly when a preferred location is given and is not the
\* pilot's.
C10_PilotScore ==
  RankReturned =>
    \A k \in DOMAIN response.result.candidates :
      LET cand == response.result.candidates[k]
          r == response.result
          given == /\ r.preferred_location /= None
                   /\ r.preferred_location /= Some("")
          there == /\ given
                   /\ CaseFold(cand.pilot.current_location)
                        = CaseFold(r.preferred_location[1])
          required_rank == IF r.required_skill_level = None THEN 0
                           ELSE Rank(r.required_skill_level[1])
      IN /\ cand.score
              = Bit(Lacking(r.required_certifications,
                            cand.pilot.certifications) = {}) * 30
                + Bit(Rank(cand.pilot.skill_level) >= required_rank) * 25
                + Bit(there) * 25
                + 5 * Rank(cand.pilot.skill_level)
         /\ (\E i \in DOMAIN cand.issues :
               cand.issues[i].issue = "In another location")
              <=> (given /\ ~there)

\* an Expert with every component: 30 + 25 + 25 + 15, the preferred location
\* given in other letters than the pilot's; and a candidate with none
C10_Witness ==
  /\ RankReturned
  /\ \E k, m \in DOMAIN response.result.candidates :
       LET cand == response.result.candidates[k]
           low == response.result.candidates[m]
       IN /\ cand.score = 95
          /\ Some(cand.pilot.current_location)
               /= response.result.preferred_location
          /\ low.score < 25
          /\ Len(low.issues) = 3

DroneRankReturned ==
  request.op = "find_replacement_drone" /\ response.status = "returned"

\* C11: every drone candidate's score is 40 if no required capability is
\* lacking, plus 30 if a preferred location is given and is the drone's
\* (letter case apart), plus 2 for each capability the drone has; a location
\* issue is listed exactly when a preferred location is given and is not the
\* drone's.
C11_DroneScore ==
  DroneRankReturned =>
    \A k \in DOMAIN response.result.candidates :
      LET cand == response.result.candidates[k]
          r == response.result
          given == /\ r.preferred_location /= None
                   /\ r.preferred_location /= Some("")
          there == /\ given
                   /\ CaseFold(cand.drone.current_location)
                        = CaseFold(r.preferred_location[1])
      IN /\ cand.score
              = Bit(Lacking(r.required_capabilities,
                            cand.drone.capabilities) = {}) * 40
                + Bit(there) * 30
                + 2 * Len(cand.drone.capabilities)
         /\ (\E i \in DOMAIN cand.issues :
               cand.issues[i].issue = "In another location")
              <=> (given /\ ~there)

\* a drone with every component, 40 + 30 + 2 * 3, beside one that lacks a
\* capability and is elsewhere
C11_Witness ==
  /\ DroneRankReturned
  /\ \E k, m \in DOMAIN response.result.candidates :
       LET cand == response.result.candidates[k]
           low == response.result.candidates[m]
       IN /\ cand.score = 76
          /\ low.score < 30
          /\ Len(low.issues) = 2

\* the pilot score of section 4.4 under the requirements r of a result
ExpectedPilotScore(p, r) ==
  LET required_rank == IF r.required_skill_level = None THEN 0
                       ELSE Rank(r.required_skill_level[1])
  IN Bit(Lacking(r.required_certifications, p.certifications) = {}) * 30
     + Bit(Rank(p.skill_level) >= required_rank) * 25
     + Bit(/\ r.preferred_location /= None
           /\ r.preferred_location /= Some("")
           /\ CaseFold(p.current_location)
                = CaseFold(r.preferred_location[1])) * 25
     + 5 * Rank(p.skill_level)

\* the drone score of section 4.4 under the requirements r of a result
ExpectedDroneScore(d, r) ==
  Bit(Lacking(r.required_capabilities, d.capabilities) = {}) * 40
  + Bit(/\ r.preferred_location /= None
        /\ r.preferred_location /= Some("")
        /\ CaseFold(d.current_location)
             = CaseFold(r.preferred_location[1])) * 30
  + 2 * Len(d.capabilities)

\* where the record with this id stands in the pool
PoolIndex(pool, id) == CHOOSE i \in DOMAIN pool : pool[i].id = id

\* the ids and scores of the returned candidates, in order
Returned ==
  [k \in DOMAIN response.result.candidates |->
    LET cand == response.result.candidates[k]
    IN IF request.op = "find_replacement_pilot"
       THEN [id |-> cand.pilot.id, status |-> cand.pilot.status,
             score |-> cand.score]
       ELSE [id |-> cand.drone.id, status |-> cand.drone.status,
             score |-> cand.score]]

\* the ids and scores of the pool's eligible records
Eligible ==
  IF request.op = "find_replacement_pilot"
  THEN {[id |-> p.id, score |-> ExpectedPilotScore(p, response.result)] :
          p \in {q \in Elems(pilots) : /\ q.status = "Available"
                                       /\ Some(q.id) /= request.exclude_pilot_id}}
  ELSE {[id |-> d.id, score |-> ExpectedDroneScore(d, response.result)] :
          d \in {e \in Elems(drones) : /\ e.status = "Available"
                                       /\ Some(e.id) /= request.exclude_drone_id}}

Pool == IF request.op = "find_replacement_pilot" THEN pilots ELSE drones

\* C12: the candidates of either ranker are Available records other than the
\* excluded one, each at most once, in descending score with equal scores in
\* pool order, at most 5 of them, and an eligible record is left out only of
\* a full list and only with a score no greater than the lowest returned.
C12_RankingResult ==
  (RankReturned \/ DroneRankReturned) =>
    /\ Len(Returned) <= 5
    /\ \A k \in DOMAIN Returned :
         /\ Returned[k].status = "Available"
         /\ [id |-> Returned[k].id, score |-> Returned[k].score] \in Eligible
    /\ \A k, m \in DOMAIN Returned :
         k < m =>
           /\ Returned[k].score >= Returned[m].score
           /\ Returned[k].score = Returned[m].score =>
                PoolIndex(Pool, Returned[k].id) < PoolIndex(Pool, Returned[m].id)
    /\ \A e \in Eligible :
         (\A k \in DOMAIN Returned : Returned[k].id /= e.id) =>
           /\ Len(Returned) = 5
           /\ \A k \in DOMAIN Returned : e.score <= Returned[k].score

\* five pilots returned out of six eligible, one excluded by id, two of the
\* returned with equal scores, and the one left out tied with the last
C12_Witness ==
  /\ RankReturned
  /\ Len(Returned) = 5
  /\ \E k \in 1..4 : Returned[k].score = Returned[k + 1].score
  /\ \E e \in Eligible :
       /\ \A k \in DOMAIN Returned : Returned[k].id /= e.id
       /\ e.score = Returned[5].score
  /\ request.exclude_pilot_id /= None

\* C13: a candidate of either ranker is recommended exactly when its list of
\* issues is empty.
C13_RecommendedIffNoIssues ==
  (RankReturned \/ DroneRankReturned) =>
    \A k \in DOMAIN response.result.candidates :
      response.result.candidates[k].recommended
        <=> response.result.candidates[k].issues = <<>>

\* drones of one result with no issue, with one and with two
C13_Witness ==
  /\ DroneRankReturned
  /\ \E k, m, n \in DOMAIN response.result.candidates :
       /\ response.result.candidates[k].recommended
       /\ Len(response.result.candidates[k].issues) = 0
       /\ ~response.result.candidates[m].recommended
       /\ Len(response.result.candidates[m].issues) = 1
       /\ ~response.result.candidates[n].recommended
       /\ Len(response.result.candidates[n].issues) = 2

\* an Available pilot other than the excluded one that meets the
\* certification and skill requirements r of a result
Qualified(p, r) ==
  /\ p.status = "Available"
  /\ Some(p.id) /= request.exclude_pilot_id
  /\ Lacking(r.required_certifications, p.certifications) = {}
  /\ Rank(p.skill_level) >= (IF r.required_skill_level = None THEN 0
                             ELSE Rank(r.required_skill_level[1]))

\* the pilot is at the preferred location of the result
AtPreferred(p, r) ==
  CaseFold(p.current_location) = CaseFold(r.preferred_location[1])

\* where the pilot stands in the returned list, 0 if it is not in it
Place(id) ==
  IF \E k \in DOMAIN response.result.candidates :
       response.result.candidates[k].pilot.id = id
  THEN CHOOSE k \in DOMAIN response.result.candidates :
         response.result.candidates[k].pilot.id = id
  ELSE 0

\* C14: when a preferred location is given, a qualified pilot at that
\* location is ranked above every qualified pilot elsewhere, whatever their
\* skill levels: wherever the second is returned, the first is returned
\* before it.
C14_LocationBeforeSeniority ==
  RankReturned =>
    LET r == response.result
    IN (r.preferred_location /= None /\ r.preferred_location /= Some("")) =>
         \A p, q \in Elems(pilots) :
           ( /\ Qualified(p, r)
             /\ Qualified(q, r)
             /\ AtPreferred(p, r)
             /\ ~AtPreferred(q, r) ) =>
             /\ Place(q.id) /= 0 => Place(p.id) /= 0
             /\ Place(q.id) /= 0 => Place(p.id) < Place(q.id)

\* a qualified pilot at the preferred location returned before a qualified
\* pilot two levels more senior who is elsewhere
C14_Witness ==
  /\ RankReturned
  /\ response.result.preferred_location /= None
  /\ response.result.preferred_location /= Some("")
  /\ \E p, q \in Elems(pilots) :
       /\ Qualified(p, response.result)
       /\ Qualified(q, response.result)
       /\ AtPreferred(p, response.result)
       /\ ~AtPreferred(q, response.result)
       /\ Rank(q.skill_level) >= Rank(p.skill_level) + 2
       /\ Place(p.id) /= 0
       /\ Place(p.id) < Place(q.id)

\* q is p with one certification added that p lacked, all else unchanged
OneMoreCertification(p, q) ==
  /\ q.skill_level = p.skill_level
  /\ q.current_location = p.current_location
  /\ q.status = p.status
  /\ \E c \in Elems(q.certifications) :
       /\ c \notin Elems(p.certifications)
       /\ Elems(q.certifications) = Elems(p.certifications) \cup {c}

\* C15: under the same requirements, the score of a pilot with one more
\* certification than another, and otherwise the same, is at least the
\* other's score.
C15_ScoreMonotoneInCertifications ==
  RankReturned =>
    \A k, m \in DOMAIN response.result.candidates :
      LET before == response.result.candidates[k]
          after == response.result.candidates[m]
      IN OneMoreCertification(before.pilot, after.pilot) =>
           after.score >= before.score

\* the added certification was the one required and lacking: 30 more
C15_Witness ==
  /\ RankReturned
  /\ \E k, m \in DOMAIN response.result.candidates :
       LET before == response.result.candidates[k]
           after == response.result.candidates[m]
       IN /\ OneMoreCertification(before.pilot, after.pilot)
          /\ before.pilot.certifications /= <<>>
          /\ after.score = before.score + 30

\* what two conflicts are compared by: all but id and detection time
Content(c) ==
  [conflict_type |-> c.conflict_type,
   severity |-> c.severity,
   description |-> c.description,
   affected_pilot_id |-> c.affected_pilot_id,
   affected_pilot_name |-> c.affected_pilot_name,
   affected_drone_id |-> c.affected_drone_id,
   affected_drone_serial |-> c.affected_drone_serial,
   affected_project_id |-> c.affected_project_id,
   affected_project_name |-> c.affected_project_name]

SweepDone == request.op = "detect_all_conflicts" /\ response /= Pending

\* C17: the sweep completes whatever dates are absent: it returns, with one
\* double-booking conflict for every pair whose two windows are recorded and
\* meet, and with the maintenance conflict of every listed drone in
\* Maintenance, the projects without a date taking no part in the window
\* checks.
C17_SweepSurvivesMissingDates ==
  SweepDone =>
    /\ response.status = "returned"
    /\ \A j \in Elems(projects) :
         /\ \A p \in Elems(pilots) :
              Booked(p, j.assigned_pilots, j) =>
                Num(DOUBLE_BOOKING_PILOT, Some(p.id), None, Some(j.id)) = 1
         /\ \A d \in ListedDrones(j) :
              d.status = "Maintenance" =>
                NumSev(DRONE_MAINTENANCE, "Critical", None, Some(d.id),
                       Some(j.id)) = 1

\* the sweep read this collection from the CSV file
ReadFromCsv(c) ==
  \/ ~provider.use_google_sheets
  \/ c = "projects" /\ ~provider.missions_sheet
  \/ c \in provider.sheet_raises

\* a read the sweep made of this collection raised
FetchRaised(c) ==
  \/ /\ provider.use_google_sheets
     /\ c = "projects" => provider.missions_sheet
     /\ c \in provider.sheet_raises
  \/ /\ ReadFromCsv(c)
     /\ provider.csv_raises_after[c] /= None

\* C18: a sweep during which the read of the pilots, the drones or the
\* projects raised ends with that failure and returns no list.
C18_ProviderFailurePropagates ==
  SweepDone =>
    ((\E c \in Collections : FetchRaised(c)) => response.status = "raised")

\* the ids of the records of a collection
IdsOf(records) == {records[i].id : i \in DOMAIN records}

\* the projects with every id that is not in the snapshot taken off their
\* assigned lists
WithoutMissingReferences ==
  [n \in DOMAIN projects |->
    [projects[n] EXCEPT
       !.assigned_pilots = SelectSeq(@, LAMBDA id : id \in IdsOf(pilots)),
       !.assigned_drones = SelectSeq(@, LAMBDA id : id \in IdsOf(drones))]]

\* the sweep's answer had the missing references not been listed
SweptWithoutMissingReferences ==
  detect_all_conflicts(pilots, drones, WithoutMissingReferences)

\* C19: no conflict of the sweep names a pilot or drone that is not in the
\* snapshot, and the sweep ends as it would, with the same conflicts in the
\* same order, had the ids not in the snapshot not been listed.
C19_MissingReferencesSkipped ==
  SweepDone =>
    /\ \A i \in DOMAIN response.conflicts :
         /\ response.conflicts[i].affected_pilot_id
              \in {None} \cup {Some(id) : id \in IdsOf(pilots)}
         /\ response.conflicts[i].affected_drone_id
              \in {None} \cup {Some(id) : id \in IdsOf(drones)}
    /\ WithoutMissingReferences /= projects =>
         LET without == SweptWithoutMissingReferences
         IN /\ (response.status = "raised") = without.raised
            /\ [i \in DOMAIN response.conflicts |->
                 Content(response.conflicts[i])] = without.conflicts

\* a project that lists a pilot and a drone that are not in the snapshot
\* beside a pilot and a drone that are and that conflict with it
C19_Witness ==
  /\ SweepReturned
  /\ \E j \in Elems(projects) :
       /\ Elems(j.assigned_pilots) \ IdsOf(pilots) /= {}
       /\ Elems(j.assigned_drones) \ IdsOf(drones) /= {}
       /\ \E p \in ListedPilots(j) : Num(LOCATION_MISMATCH, Some(p.id), None,
                                         Some(j.id)) = 1
       /\ \E d \in ListedDrones(j) : Num(LOCATION_MISMATCH, None, Some(d.id),
                                         Some(j.id)) = 1

\* a required level that is none of the four: absent, empty or unknown
Unrecognized(level) ==
  \/ level = None
  \/ level[1] \notin {"Beginner", "Intermediate", "Advanced", "Expert"}

\* C20: a required skill level that is none of the four levels counts as
\* rank 0, which no pilot is below: the sweep returns no skill conflict for
\* a project that requires it, the pre-assignment check returns no skill
\* conflict, the pilot ranker lists no skill issue and awards every
\* candidate the skill component; and the call completes.
C20_UnrecognizedSkillIsRankZero ==
  /\ SweepDone =>
       /\ ( /\ \E j \in Elems(projects) : Unrecognized(j.required_skill_level)
            /\ \A j \in Elems(projects) :
                 j.start_date /= None /\ j.end_date /= None )
            => response.status = "returned"
       /\ \A j \in Elems(projects) :
            Unrecognized(j.required_skill_level) =>
              \A i \in DOMAIN response.conflicts :
                ~ /\ response.conflicts[i].conflict_type = SKILL_MISMATCH
                  /\ response.conflicts[i].affected_project_id = Some(j.id)
  /\ (request.op = "check_assignment_conflicts" /\ response /= Pending
        /\ Unrecognized(Some(request.required_skill))) =>
       /\ response.status = "returned"
       /\ NumOfType(SKILL_MISMATCH) = 0
  /\ (request.op = "find_replacement_pilot" /\ response /= Pending
        /\ Unrecognized(response.result.required_skill_level)) =>
       /\ response.status = "returned"
       /\ \A k \in DOMAIN response.result.candidates :
            LET cand == response.result.candidates[k]
            IN /\ \A i \in DOMAIN cand.issues :
                    cand.issues[i].issue /= "Skill level below required"
               /\ cand.score >= 25 + 5 * Rank(cand.pilot.skill_level)

\* a Beginner listed on a project that requires the unknown level "Guru" and
\* gets no skill conflict, in a sweep that returns the skill conflict of
\* another project
C20_Witness ==
  /\ SweepReturned
  /\ NumOfType(SKILL_MISMATCH) > 0
  /\ \E j \in Elems(projects) :
       /\ j.required_skill_level = Some("Guru")
       /\ \E p \in ListedPilots(j) :
            /\ p.skill_level = "Beginner"
            /\ Num(SKILL_MISMATCH, Some(p.id), None, Some(j.id)) = 0

\* the ids of the conflicts of one answer
IdsIn(answer) == {answer.conflicts[i].id : i \in DOMAIN answer.conflicts}

\* C22: no two conflicts of one run of the sweep carry the same id, and no
\* conflict of a run carries the id of a conflict of an earlier run.
C22_IdsUnique ==
  SweepDone =>
    /\ Cardinality(IdsIn(response)) = Len(response.conflicts)
    /\ \A n \in DOMAIN earlier : IdsIn(response) \cap IdsIn(earlier[n]) = {}

\* C24: on well-ordered intervals the overlap test gives the same answer
\* when the two intervals change places.
C24_OverlapSymmetric ==
  \A c \in overlapCalls :
    (c.start1 <= c.end1 /\ c.start2 <= c.end2) =>
      c.result = _dates_overlap(c.start2, c.end2, c.start1, c.end1)

\* the test was evaluated on two different well-ordered intervals that
\* overlap, and on two that do not
C24_Witness ==
  /\ \E c \in overlapCalls :
       /\ c.start1 <= c.end1 /\ c.start2 <= c.end2
       /\ <<c.start1, c.end1>> /= <<c.start2, c.end2>>
       /\ c.result
  /\ \E c \in overlapCalls :
       /\ c.start1 <= c.end1 /\ c.start2 <= c.end2
       /\ ~c.result

\* the snapshots that differ from (ps, ds, prjs) in data only one rule
\* reads, each with the type of that rule's conflicts
Toggled(ps, ds, prjs) ==
  LET Snapshot(rule, ps2, ds2, prjs2) ==
        [rule |-> rule, pilots |-> ps2, drones |-> ds2, projects |-> prjs2]
  IN UNION {
       {Snapshot(DOUBLE_BOOKING_PILOT,
                 [ps EXCEPT ![i].current_assignment = w[1],
                            ![i].assignment_start_date = w[2],
                            ![i].assignment_end_date = w[3]], ds, prjs) :
          i \in DOMAIN ps,
          w \in {<<None, None, None>>, <<Some("C"), Some(1), Some(MaxDate)>>}},
       {Snapshot(DOUBLE_BOOKING_DRONE, ps,
                 [ds EXCEPT ![i].current_assignment = w[1],
                            ![i].assignment_start_date = w[2],
                            ![i].assignment_end_date = w[3]], prjs) :
          i \in DOMAIN ds,
          w \in {<<None, None, None>>, <<Some("C"), Some(1), Some(MaxDate)>>}},
       {Snapshot(CERTIFICATION_MISMATCH,
                 [ps EXCEPT ![i].certifications = certs], ds, prjs) :
          i \in DOMAIN ps, certs \in {<<>>, <<"DGCA">>}},
       {Snapshot(CERTIFICATION_MISMATCH, ps, ds,
                 [prjs EXCEPT ![j].required_certifications = certs]) :
          j \in DOMAIN prjs, certs \in {<<>>, <<"DGCA">>}},
       {Snapshot(SKILL_MISMATCH,
                 [ps EXCEPT ![i].skill_level = level], ds, prjs) :
          i \in DOMAIN ps, level \in {"Beginner", "Expert"}},
       {Snapshot(SKILL_MISMATCH, ps, ds,
                 [prjs EXCEPT ![j].required_skill_level = level]) :
          j \in DOMAIN prjs, level \in {None, Some("Expert")}},
       {Snapshot(LOCATION_MISMATCH,
                 [ps EXCEPT ![i].current_location = place], ds, prjs) :
          i \in DOMAIN ps, place \in {"Pune", "Mumbai"}},
       {Snapshot(LOCATION_MISMATCH, ps,
                 [ds EXCEPT ![i].current_location = place], prjs) :
          i \in DOMAIN ds, place \in {"Pune", "Mumbai"}},
       {Snapshot(LOCATION_MISMATCH, ps, ds,
                 [prjs EXCEPT ![j].location = place]) :
          j \in DOMAIN prjs, place \in {"Pune", "Mumbai"}},
       {Snapshot(DRONE_MAINTENANCE, ps,
                 [ds EXCEPT ![i].status = status], prjs) :
          i \in DOMAIN ds, status \in {"Available", "Maintenance"}},
       {Snapshot(DRONE_MAINTENANCE, ps,
                 [ds EXCEPT ![i].next_maintenance_date = due], prjs) :
          i \in DOMAIN ds, due \in {None, Some(2)}},
       {Snapshot(CAPABILITY_MISMATCH, ps,
                 [ds EXCEPT ![i].capabilities = caps], prjs) :
          i \in DOMAIN ds, caps \in {<<>>, <<"Thermal">>}},
       {Snapshot(CAPABILITY_MISMATCH, ps, ds,
                 [prjs EXCEPT ![j].required_capabilities = caps]) :
          j \in DOMAIN prjs, caps \in {<<>>, <<"Thermal">>}}}

\* the conflicts of a list that the rules other than the named one emitted,
\* in order, each by type, severity, description and references
OfOtherRules(conflicts, rule) ==
  LET Other(c) == c.conflict_type /= rule
  IN SelectSeq([i \in DOMAIN conflicts |-> Content(conflicts[i])], Other)

\* C23: a snapshot that differs from the one swept only in data one rule
\* reads (a pilot's or drone's own assignment, certifications, skill level,
\* location, status, next maintenance date, capabilities, or a project's
\* requirement of these) gives, where its sweep returns too, the same
\* conflicts of every other rule.
C23_RuleIndependence ==
  (SweepReturned /\ earlier = <<>>) =>
    \A t \in Toggled(pilots, drones, projects) :
      LET other == detect_all_conflicts(t.pilots, t.drones, t.projects)
      IN ~other.raised =>
           OfOtherRules(other.conflicts, t.rule)
             = OfOtherRules(response.conflicts, t.rule)

\* a sweep that returned conflicts of five types, over a snapshot from which
\* some change of one rule's data alters what that rule emits
C23_Witness ==
  /\ SweepReturned
  /\ earlier = <<>>
  /\ Cardinality({response.conflicts[i].conflict_type :
                    i \in DOMAIN response.conflicts}) >= 5
  /\ \E t \in Toggled(pilots, drones, projects) :
       LET other == detect_all_conflicts(t.pilots, t.drones, t.projects)
       IN /\ ~other.raised
          /\ t.rule = CERTIFICATION_MISMATCH
          /\ Len(other.conflicts) < Len(response.conflicts)

\* C28: the pilot ranker, asked about a project on record, takes the
\* project's required certifications when the caller gives none and the
\* project's location when the caller gives none; when the caller gives no
\* skill level it requires Intermediate, whatever level the project records,
\* and judges every candidate's skill against Intermediate.
C28_PilotRankerDefaults ==
  RankReturned =>
    LET project == FindById(projects, request.project_id)
        r == response.result
    IN /\ (project /= None /\ request.required_certifications = <<>>) =>
            r.required_certifications = project[1].required_certifications
       /\ (project /= None /\ request.preferred_location = None) =>
            r.preferred_location = Some(project[1].location)
       /\ request.required_skill_level = None =>
            /\ r.required_skill_level = Some("Intermediate")
            /\ \A k \in DOMAIN r.candidates :
                 (\E i \in DOMAIN r.candidates[k].issues :
                    r.candidates[k].issues[i].issue
                      = "Skill level below required")
                   <=> Rank(r.candidates[k].pilot.skill_level)
                         < Rank("Intermediate")

\* a caller that names project PRJ1, which requires DGCA, Advanced and PUNE,
\* and gives no certifications, level or location: an Intermediate candidate
\* is listed without a skill issue
C28_Witness ==
  /\ RankReturned
  /\ request.required_certifications = <<>>
  /\ request.preferred_location = None
  /\ request.required_skill_level = None
  /\ \E j \in Elems(projects) :
       /\ j.id = request.project_id
       /\ j.required_skill_level = Some("Advanced")
       /\ j.required_certifications /= <<>>
  /\ \E k \in DOMAIN response.result.candidates :
       LET cand == response.result.candidates[k]
       IN /\ cand.pilot.skill_level = "Intermediate"
          /\ \A i \in DOMAIN cand.issues :
               cand.issues[i].issue /= "Skill level below required"

\* what the provider's reads return now
ReadPilots == get_all_pilots(provider, pilots)
ReadDrones == get_all_drones(provider, drones)
ReadProjects == get_demo_projects(provider, projects)

\* the row of the roster with this id cell
RowOf(records, key, id) == {r \in Elems(records) : r[key] = id}

\* C25: with the rows of the provider's own source, whatever updates and
\* reassignments were made, every project the provider returns lists no
\* pilot and no drone, and every sweep returns an empty list.
C25_OwnProjectsListNobody ==
  /\ ReadProjects = ParsedProjects(cells.projects)
  /\ \A j \in Elems(ReadProjects) :
       j.assigned_pilots = <<>> /\ j.assigned_drones = <<>>
  /\ SweepDone => response.status = "returned" /\ response.conflicts = <<>>

\* a sweep that returned while P2, without the certification, the level and
\* the place of Acme - Pune, was assigned to it and D1 was in maintenance
C25_Witness ==
  /\ SweepDone
  /\ \E p \in Elems(ReadPilots) :
       /\ p.id = "P2"
       /\ p.status = "Assigned"
       /\ p.current_assignment = Some(OwnProject)
  /\ \E d \in Elems(ReadDrones) :
       /\ d.id = "D1"
       /\ d.status = "Maintenance"
  /\ \E j \in Elems(ReadProjects) :
       /\ j.name = OwnProject
       /\ j.required_certifications /= <<>>

\* C26: the provider stores no assignment date: every pilot it returns has
\* no assignment end date, every drone neither start nor end date, the date
\* cells of the rows stay as they were found, and the pre-assignment check
\* never returns an already-assigned conflict.
C26_NoAssignmentDatesStored ==
  /\ ReadPilots = ParsedPilots(cells.pilots)
  /\ ReadDrones = ParsedDrones(cells.drones)
  /\ \A p \in Elems(ReadPilots) : p.assignment_end_date = None
  /\ \A d \in Elems(ReadDrones) :
       d.assignment_start_date = None /\ d.assignment_end_date = None
  /\ \A i \in DOMAIN cells.pilots :
       cells.pilots[i].available_from
         = PilotRows("", "")[i].available_from
  /\ \A i \in DOMAIN cells.drones :
       cells.drones[i].maintenance_due
         = DroneRows("", "")[i].maintenance_due
  /\ (request.op = "check_assignment_conflicts" /\ response /= Pending) =>
       /\ response.status = "returned"
       /\ \A i \in DOMAIN response.conflicts :
            response.conflicts[i].description.template
              \notin {"pilot is already assigned", "drone is already assigned"}

\* the check of P1 and D1 for the whole window, answered when the rows hold
\* what update_pilot_status and update_drone_status wrote for an assignment
\* to Acme - Pune over that window
C26_Witness ==
  /\ request.op = "check_assignment_conflicts"
  /\ response /= Pending
  /\ request.pilot_id = Some("P1")
  /\ request.drone_id = Some("D1")
  /\ \E r \in RowOf(cells.pilots, "pilot_id", "P1") :
       r.status = "Assigned" /\ r.current_assignment = OwnProject
  /\ \E r \in RowOf(cells.drones, "drone_id", "D1") :
       r.status = "Deployed" /\ r.current_assignment = OwnProject
  /\ \E p \in Elems(ReadPilots) :
       /\ p.id = "P1"
       /\ p.current_assignment = Some(OwnProject)
       /\ p.assignment_start_date /= None

\* the provider calls a reassignment with arguments a is to make, in order;
\* dated marks those made after the dates are read
ReassignmentSteps(a) ==
  (IF Truthy(a.old_pilot_id)
   THEN <<[fn |-> "update_pilot_status", id |-> a.old_pilot_id[1],
           status |-> "Available", assignment |-> None, dated |-> FALSE]>>
   ELSE <<>>)
  \o (IF Truthy(a.new_pilot_id)
      THEN <<[fn |-> "update_pilot_status", id |-> a.new_pilot_id[1],
              status |-> "Assigned", assignment |-> a.project_name,
              dated |-> TRUE]>>
      ELSE <<>>)
  \o (IF Truthy(a.old_drone_id)
      THEN <<[fn |-> "update_drone_status", id |-> a.old_drone_id[1],
              status |-> "Available", assignment |-> None, dated |-> FALSE]>>
      ELSE <<>>)
  \o (IF Truthy(a.new_drone_id)
      THEN <<[fn |-> "update_drone_status", id |-> a.new_drone_id[1],
              status |-> "Deployed", assignment |-> a.project_name,
              dated |-> TRUE]>>
      ELSE <<>>)

\* a date argument that is given and is not a %Y-%m-%d date
Unreadable(d) ==
  /\ d /= None
  /\ d /= Some("")
  /\ \A day \in DOMAIN IsoTable : Some(IsoTable[day]) /= d

\* the steps before the first one that reads the dates
BeforeDated(steps) ==
  IF \E i \in DOMAIN steps : steps[i].dated
  THEN SubSeq(steps, 1,
              (CHOOSE i \in DOMAIN steps :
                 /\ steps[i].dated
                 /\ \A k \in 1..(i - 1) : ~steps[k].dated) - 1)
  ELSE steps

\* the rows an update call writes to, before and after the step
RowsOf(rws, fn) == IF fn = "update_pilot_status" THEN rws.pilots ELSE rws.drones
KeyOf(fn) == IF fn = "update_pilot_status" THEN "pilot_id" ELSE "drone_id"

ReassignmentAnswered ==
  /\ request.op = "execute_reassignment"
  /\ response = Pending
  /\ response' /= Pending

\* C27: a reassignment releases the old pilot, assigns the new pilot,
\* releases the old drone and deploys the new drone, in this order, each
\* only when its id is given. When a date cannot be read, the step that
\* reads it and every later step are not performed, the answer has success
\* false, and what the earlier steps wrote stays written; otherwise all
\* steps are performed and success is true.
C27_ReassignmentInOrder ==
  [][ReassignmentAnswered =>
      LET steps == ReassignmentSteps(request)
          stopped ==
            /\ Unreadable(request.start_date) \/ Unreadable(request.end_date)
            /\ \E i \in DOMAIN steps : steps[i].dated
          performed == IF stopped THEN BeforeDated(steps) ELSE steps
          made == response'.calls
          actions == response'.result.actions
      IN /\ Len(made) = Len(performed)
         /\ Len(actions) = Len(performed)
         /\ \A i \in DOMAIN performed :
              /\ made[i].fn = performed[i].fn
              /\ made[i].id = performed[i].id
              /\ made[i].status = performed[i].status
              /\ made[i].assignment = performed[i].assignment
              /\ actions[i].id = performed[i].id
         /\ response'.result.success = ~stopped
         /\ \A i \in DOMAIN made :
              made[i].wrote = 2 =>
                \E r \in RowOf(RowsOf(cells', made[i].fn),
                                KeyOf(made[i].fn), made[i].id) :
                  /\ r.status = made[i].status
                  /\ r.current_assignment
                       = (IF made[i].assignment = None THEN EnDash
                          ELSE made[i].assignment[1])
         /\ \A k \in DOMAIN cells.pilots :
              (\A i \in DOMAIN made :
                 made[i].fn = "update_pilot_status"
                   => made[i].id /= cells.pilots[k].pilot_id)
                => cells'.pilots[k] = cells.pilots[k]
         /\ \A k \in DOMAIN cells.drones :
              (\A i \in DOMAIN made :
                 made[i].fn = "update_drone_status"
                   => made[i].id /= cells.drones[k].drone_id)
                => cells'.drones[k] = cells.drones[k]
     ]_vars

\* a reassignment from P1 and D1 to P2 and D2 with an end date that cannot
\* be read: answered with success false after P1 alone was released, P2
\* and both drones as they were
C27_Witness ==
  /\ request.op = "execute_reassignment"
  /\ response /= Pending
  /\ request.old_pilot_id = Some("P1")
  /\ request.new_pilot_id = Some("P2")
  /\ request.old_drone_id = Some("D1")
  /\ request.new_drone_id = Some("D2")
  /\ ~response.result.success
  /\ Len(response.calls) = 1
  /\ response.calls[1].wrote = 2
  /\ \E r \in RowOf(cells.pilots, "pilot_id", "P1") :
       r.status = "Available" /\ r.current_assignment = EnDash
  /\ \E r \in RowOf(cells.pilots, "pilot_id", "P2") : r.status /= "Assigned"
  /\ \E r \in RowOf(cells.drones, "drone_id", "D1") : r.status = "Deployed"

\* a call of the engine is answered
EngineAnswered ==
  /\ request.op \in {"detect_all_conflicts", "check_assignment_conflicts",
                     "find_replacement_pilot", "find_replacement_drone"}
  /\ response = Pending
  /\ response' /= Pending

\* C21: answering the sweep, the pre-assignment check or either ranker
\* changes no row of the source and no pilot, drone or project record the
\* provider returns, whatever calls went before.
C21_EngineReadOnly ==
  [][EngineAnswered =>
       /\ cells' = cells
       /\ get_all_pilots(provider', pilots') = ReadPilots
       /\ get_all_drones(provider', drones') = ReadDrones
       /\ get_demo_projects(provider', projects') = ReadProjects
       /\ provider' = provider]_vars

\* a pilot ranking that returned candidates after an update had changed
\* the roster: P1 is on leave
C21_Witness ==
  /\ RankReturned
  /\ response.result.candidates /= <<>>
  /\ \E r \in RowOf(cells.pilots, "pilot_id", "P1") : r.status = "On Leave"

(***************************************************************************)
(* The chat agent: fallback and history                                    *)
(***************************************************************************)
ChatAnswered == request.op = "chat" /\ response = Pending /\ response' /= Pending

ResetAnswered ==
  request.op = "reset_agent_service" /\ response = Pending
    /\ response' /= Pending

\* the test of chat on the text of an error, written out
Classified(error_str) ==
  \/ Occurs("429", error_str)
  \/ Occurs("RESOURCE_EXHAUSTED", error_str)
  \/ Occurs("quota", LowerOfError(error_str))
  \/ Occurs("rate", LowerOfError(error_str))

\* the text the fallback responder gives now, with the notice of a disabled AI
FallbackText ==
  Append(_generate_fallback_response(request.message, provider, pilots,
                                     drones, projects).text,
         Disabled)

\* C29: a chat call whose AI call fails with an error classified as quota or
\* rate limit sets ai_disabled_reason, one whose AI call fails otherwise or
\* succeeds leaves it unset; while it is set, every chat call, in any
\* session, makes no call of the AI provider, returns the fallback
\* responder's text and leaves it set; only reset_agent_service, which
\* installs a new instance with nothing disabled and no session, clears it.
C29_QuotaFallbackSticky ==
  [][/\ ChatAnswered /\ agent.ai_disabled_reason /= None
          => /\ response'.calls = <<>>
             /\ response'.status = "returned"
             /\ response'.result.response_text = FallbackText
             /\ agent'.ai_disabled_reason = agent.ai_disabled_reason
     /\ ChatAnswered /\ agent.ai_disabled_reason = None
          => /\ agent.ai_provider /= None => Len(response'.calls) = 1
             /\ \A i \in DOMAIN response'.calls :
                  agent'.ai_disabled_reason /= None
                    <=> /\ response'.calls[i].error /= None
                        /\ Classified(response'.calls[i].error[1])
             /\ response'.calls = <<>> => agent'.ai_disabled_reason = None
     /\ agent'.ai_disabled_reason = None /\ agent.ai_disabled_reason /= None
          => ResetAnswered
     /\ ResetAnswered
          => /\ agent'.ai_disabled_reason = None
             /\ agent'.sessions = <<>>
             /\ agent'.ai_provider \in Providers
    ]_vars

\* an instance with an AI provider, disabled by a quota error met in one
\* session, has answered a chat call of another session by the fallback
\* responder without a call of the AI provider
C29_Witness ==
  /\ request.op = "chat"
  /\ response /= Pending
  /\ response.status = "returned"
  /\ response.calls = <<>>
  /\ agent.ai_provider /= None
  /\ agent.ai_disabled_reason /= None
  /\ \E s \in DOMAIN agent.sessions :
       /\ s /= response.result.session_id
       /\ \E i \in DOMAIN agent.sessions[s] :
            LET content == agent.sessions[s][i].content
            IN content[Len(content)] = "AI quota temporarily exceeded."

Alternates(sessions) ==
  \A s \in DOMAIN sessions :
    \A i \in DOMAIN sessions[s] :
      /\ sessions[s][i].role \in {"user", "assistant"}
      /\ sessions[s][i].role = "assistant"
           => i > 1 /\ sessions[s][i - 1].role = "user"

\* the AI call of the chat call just answered failed with an error that is
\* not classified as quota or rate limit
ErredUnclassified(calls) ==
  \E i \in DOMAIN calls :
    calls[i].error /= None /\ ~Classified(calls[i].error[1])

\* C30: a chat call returns; its session is the one named, or a new one when
\* the id is absent or empty; the history of that session (empty when the
\* session was unknown) grows by the user message and then by one assistant
\* message holding the returned text, or by the user message alone when the
\* AI call failed with an unclassified error; no other session changes; so
\* in every history an assistant message directly follows a user message.
C30_ChatHistory ==
  [][ChatAnswered =>
       LET sid == response'.result.session_id
           before == IF sid \in DOMAIN agent.sessions
                     THEN agent.sessions[sid] ELSE <<>>
           after == agent'.sessions[sid]
           asked == Append(before, ChatMessage("user", <<request.message>>))
       IN /\ response'.status = "returned"
          /\ IF Truthy(request.session_id)
             THEN sid = request.session_id[1]
             ELSE sid \notin DOMAIN agent.sessions
          /\ DOMAIN agent'.sessions = DOMAIN agent.sessions \cup {sid}
          /\ \A s \in DOMAIN agent.sessions \ {sid} :
               agent'.sessions[s] = agent.sessions[s]
          /\ IF ErredUnclassified(response'.calls)
             THEN after = asked
             ELSE after = Append(asked,
                                 ChatMessage("assistant",
                                             response'.result.response_text))
          /\ Alternates(agent'.sessions)
    ]_vars

\* a session given by the client holds a user message left unanswered by an
\* unclassified error, followed by a user message with its answer, next to a
\* session created for a call without an id
C30_Witness ==
  /\ request.op = "chat"
  /\ response /= Pending
  /\ \E s \in ClientIds \cap DOMAIN agent.sessions :
       LET history == agent.sessions[s]
       IN /\ Len(history) = 3
          /\ history[1].role = "user"
          /\ history[2].role = "user"
          /\ history[3].role = "assistant"
  /\ \E s \in SessionUuids \cap DOMAIN agent.sessions :
       Len(agent.sessions[s]) > 0

====
